---- MODULE Spec2Model ----
(***************************************************************************)
(* A model of the Lox tree-walking interpreter: the static resolver        *)
(* (resolver.rs), the environment chain (environment.rs), the callables    *)
(* (callable.rs) and the evaluator (interpreter.rs).                       *)
(*                                                                         *)
(* The heap is explicit: environment frames, function objects, class       *)
(* objects and instances live in sequences and are referred to by index,   *)
(* so that sharing (Rc) and copying (clone) are distinguishable.           *)
(***************************************************************************)
EXTENDS Integers, Sequences, FiniteSets, TLC

(***************************************************************************)
(* Bounds of the model.                                                    *)
(***************************************************************************)
\* deepest nesting of blocks generated around a program fragment
MaxDepth == 2
\* largest number of parameters / arguments generated for a call
MaxArgs == 2
\* largest reading of the native clock (seconds)
MaxClock == 1
\* largest number of iterations of a generated loop, and of repeated calls
MaxIter == 2

(***************************************************************************)
(* Values: Literal (grammar.rs / interpreter.rs).  Every value is a record *)
(* with the same fields: t the variant, n the number or the heap index,    *)
(* s the string.                                                           *)
(***************************************************************************)
Nil == [t |-> "nil", n |-> 0, s |-> ""]
Boolean(b) == [t |-> "bool", n |-> IF b THEN 1 ELSE 0, s |-> ""]
Number(k) == [t |-> "num", n |-> k, s |-> ""]
String(x) == [t |-> "str", n |-> 0, s |-> x]
FunctionV(f) == [t |-> "fun", n |-> f, s |-> ""]
ClassV(c) == [t |-> "class", n |-> c, s |-> ""]
InstanceV(i) == [t |-> "inst", n |-> i, s |-> ""]

is_truthy(v) ==
    CASE v.t = "bool" -> v.n = 1
      [] v.t = "nil" -> FALSE
      [] OTHER -> TRUE

(***************************************************************************)
(* HashMap<String, _>: a function whose domain is the set of keys.         *)
(***************************************************************************)
EmptyMap == [x \in {} |-> Nil]
Has(m, k) == k \in DOMAIN m
Put(m, k, v) == [x \in DOMAIN m \cup {k} |-> IF x = k THEN v ELSE m[x]]

(***************************************************************************)
(* Errors.  A message is the Display form of LoxError (error.rs).          *)
(***************************************************************************)
OPERANDS_MUST_BE_NUMBERS == "Operands must be numbers."
OPERANDS_MUST_BE_NUMBERS_OR_STRINGS == "Operands must be numbers or strings."
ONLY_INSTANCES_HAVE_FIELDS == "Only instances have fields."
RETURN_FROM_INITIALIZER == "Can't return a value from an initializer."
RETURN_FROM_TOP_LEVEL == "Can't return from top-level code."
THIS_OUTSIDE_CLASS == "Can't use 'this' outside of a class."
SUPER_OUTSIDE_CLASS == "Can't use 'super' outside of a class."
SUPER_WITHOUT_SUPERCLASS == "Can't use 'super' in a class with no superclass."
CLASS_INHERIT_SELF == "A class can't inherit from itself."
VARIABLE_IN_OWN_INITIALIZER == "Can't read local variable in its own initializer."
DUPLICATE_VARIABLE == "Already a variable with this name in this scope."

UndefinedVariable(name) == "Undefined variable '" \o name \o "'."
UndefinedProperty(name) == "Undefined property '" \o name \o "'."
ArgumentCountError(expected, got) ==
    "Expected " \o ToString(expected) \o " arguments but got " \o ToString(got) \o "."
\* a Rust panic (expect on None, unimplemented!): the process aborts
Panic(msg) == "panic: " \o msg

(***************************************************************************)
(* AST (the Expression and Statement variants matched in interpreter.rs    *)
(* and resolver.rs).  k is the variant.  A token is its lexeme.            *)
(***************************************************************************)
None == [k |-> "None"]
IsNone(x) == x.k = "None"
Literal(v) == [k |-> "Literal", value |-> v]
Grouping(e) == [k |-> "Grouping", expr |-> e]
Unary(o, r) == [k |-> "Unary", op |-> o, right |-> r]
Binary(l, o, r) == [k |-> "Binary", left |-> l, op |-> o, right |-> r]
Logical(l, o, r) == [k |-> "Logical", left |-> l, op |-> o, right |-> r]
Variable(i, nm) == [k |-> "Variable", id |-> i, name |-> nm]
Assign(i, nm, v) == [k |-> "Assign", id |-> i, name |-> nm, value |-> v]
Call(c, as) == [k |-> "Call", callee |-> c, arguments |-> as]
Get(o, nm) == [k |-> "Get", object |-> o, name |-> nm]
Set(o, nm, v) == [k |-> "Set", object |-> o, name |-> nm, value |-> v]
This(i) == [k |-> "This", id |-> i, keyword |-> "this"]
Super(i, m) == [k |-> "Super", id |-> i, keyword |-> "super", method |-> m]

Function(nm, ps, b) == [name |-> nm, params |-> ps, body |-> b]
ExpressionS(e) == [k |-> "Expression", expr |-> e]
PrintS(e) == [k |-> "Print", expr |-> e]
VariableS(nm, i) == [k |-> "Var", name |-> nm, init |-> i]
BlockS(ss) == [k |-> "Block", statements |-> ss]
IfS(c, t, e) == [k |-> "If", condition |-> c, then_branch |-> t, else_branch |-> e]
WhileS(c, b) == [k |-> "While", condition |-> c, body |-> b]
FunctionS(f) == [k |-> "Function", fun |-> f]
ReturnS(v) == [k |-> "Return", keyword |-> "return", value |-> v]
ClassS(nm, sup, ms) == [k |-> "Class", name |-> nm, superclass |-> sup, methods |-> ms]

(***************************************************************************)
(* Resolver (resolver.rs).  R is the Resolver with the interpreter's       *)
(* locals table it writes; ok = FALSE and err hold a returned Err, after   *)
(* which every caller returns at once (the ? operator).                    *)
(***************************************************************************)
Resolver_new(locals0) ==
    [scopes |-> <<>>, current_function |-> "None", current_class |-> "None",
     locals |-> locals0, ok |-> TRUE, err |-> ""]

Resolver_error(R, message) == [R EXCEPT !.ok = FALSE, !.err = message]

begin_scope(R) == [R EXCEPT !.scopes = Append(@, EmptyMap)]

\* mutant: the scope is left on the stack
end_scope_kept(R) == R

end_scope(R) == [R EXCEPT !.scopes = SubSeq(@, 1, Len(@) - 1)]

\* insert into the innermost scope, if there is one
scope_insert(R, name, defined) ==
    IF Len(R.scopes) > 0
    THEN [R EXCEPT !.scopes[Len(R.scopes)] = Put(@, name, defined)]
    ELSE R

\* mutant: declare marks the name defined at once
declare_defined(R, name) ==
    IF Len(R.scopes) > 0
    THEN IF Has(R.scopes[Len(R.scopes)], name)
         THEN Resolver_error(R, DUPLICATE_VARIABLE)
         ELSE scope_insert(R, name, TRUE)
    ELSE R

declare(R, name) ==
    IF Len(R.scopes) > 0
    THEN IF Has(R.scopes[Len(R.scopes)], name)
         THEN Resolver_error(R, DUPLICATE_VARIABLE)
         ELSE scope_insert(R, name, FALSE)
    ELSE R

define(R, name) == scope_insert(R, name, TRUE)

\* mutant: the depth is recorded one scope further out
Interpreter_resolve_outward(locals, exp_id, depth) == Put(locals, exp_id, depth + 1)

Interpreter_resolve(locals, exp_id, depth) == Put(locals, exp_id, depth)

\* mutant: the depth is counted from the outermost scope inward
scan_scopes_outermost(scopes, name, depth) ==
    LET with == { d \in 1..Len(scopes) : Has(scopes[d], name) } IN
    IF with = {} THEN -1
    ELSE (CHOOSE d \in with : \A c \in with : d <= c) - 1

\* the loop of resolve_local from depth on: the depth of the first scope,
\* counted from the innermost, that contains name, or -1
RECURSIVE scan_scopes(_, _, _)
scan_scopes(scopes, name, depth) ==
    IF depth >= Len(scopes) THEN -1
    ELSE IF Has(scopes[Len(scopes) - depth], name) THEN depth
    ELSE scan_scopes(scopes, name, depth + 1)

resolve_local(R, exp_id, name) ==
    LET depth == scan_scopes(R.scopes, name, 0) IN
    IF depth >= 0
    THEN [R EXCEPT !.locals = Interpreter_resolve(@, exp_id, depth)]
    ELSE R

RECURSIVE resolve(_, _, _)
RECURSIVE resolve_statement(_, _)
RECURSIVE resolve_expression(_, _)
RECURSIVE resolve_arguments(_, _, _)
RECURSIVE resolve_arguments_range(_, _, _, _)
RECURSIVE resolve_function(_, _, _)
RECURSIVE resolve_methods(_, _, _)

\* Resolver::resolve, from statement i on
resolve(R, statements, i) ==
    IF i > Len(statements) THEN R
    ELSE LET R1 == resolve_statement(R, statements[i]) IN
         IF ~R1.ok THEN R1 ELSE resolve(R1, statements, i + 1)

\* mutant: the enclosing function kind is not put back
resolve_function_no_restore(R, fun, fun_ty) ==
    LET R1 == begin_scope([R EXCEPT !.current_function = fun_ty])
        R2 == resolve_arguments(R1, fun.params, 1)
        R3 == resolve(R2, fun.body, 1)
    IN  IF ~R2.ok THEN R2
        ELSE IF ~R3.ok THEN R3
        ELSE end_scope(R3)

resolve_function(R, fun, fun_ty) ==
    LET enclosing_fun == R.current_function
        R1 == begin_scope([R EXCEPT !.current_function = fun_ty])
        R2 == resolve_arguments(R1, fun.params, 1)
        R3 == resolve(R2, fun.body, 1)
    IN  IF ~R2.ok THEN R2
        ELSE IF ~R3.ok THEN R3
        ELSE [end_scope(R3) EXCEPT !.current_function = enclosing_fun]

\* the parameter loop of resolve_function: declare, then define, each
resolve_argument(R, param) ==
    LET R1 == declare(R, param) IN IF ~R1.ok THEN R1 ELSE define(R1, param)

\* the parameters lo..hi in order, stopping at the first error; the
\* recursion halves the range
resolve_arguments_range(R, params, lo, hi) ==
    IF ~R.ok \/ lo > hi THEN R
    ELSE IF lo = hi THEN resolve_argument(R, params[lo])
    ELSE resolve_arguments_range(
             resolve_arguments_range(R, params, lo, (lo + hi) \div 2),
             params, (lo + hi) \div 2 + 1, hi)

resolve_arguments(R, params, i) == resolve_arguments_range(R, params, i, Len(params))

\* the method loop of the Class case
resolve_methods(R, methods, i) ==
    IF i > Len(methods) THEN R
    ELSE LET function_type == IF methods[i].name = "init" THEN "Initializer" ELSE "Method"
             R1 == resolve_function(R, methods[i], function_type)
         IN  IF ~R1.ok THEN R1 ELSE resolve_methods(R1, methods, i + 1)

\* mutant: the enclosing class kind is not put back
resolve_class_no_restore(R, statement) ==
    LET name == statement.name
        superclass == statement.superclass
        R1 == declare([R EXCEPT !.current_class = "Class"], name)
        R2 == define(R1, name)
        R3 == resolve_expression([R2 EXCEPT !.current_class = "Subclass"], superclass)
        R4 == scope_insert(begin_scope(R3), "super", TRUE)
        Rs == IF IsNone(superclass) THEN R2 ELSE R4
        R5 == scope_insert(begin_scope(Rs), "this", TRUE)
        R6 == resolve_methods(R5, statement.methods, 1)
        R7 == end_scope(R6)
        R8 == IF ~IsNone(superclass) THEN end_scope(R7) ELSE R7
    IN  IF ~R1.ok THEN R1
        ELSE IF ~IsNone(superclass) /\ superclass.k # "Variable"
        THEN Resolver_error(R2, Panic("Superclass should be a variable"))
        ELSE IF ~IsNone(superclass) /\ name = superclass.name
        THEN Resolver_error(R2, CLASS_INHERIT_SELF)
        ELSE IF ~IsNone(superclass) /\ ~R3.ok THEN R3
        ELSE IF ~R6.ok THEN R6
        ELSE R8

resolve_class(R, statement) ==
    LET enclosing_class == R.current_class
        name == statement.name
        superclass == statement.superclass
        R1 == declare([R EXCEPT !.current_class = "Class"], name)
        R2 == define(R1, name)
        R3 == resolve_expression([R2 EXCEPT !.current_class = "Subclass"], superclass)
        R4 == scope_insert(begin_scope(R3), "super", TRUE)
        Rs == IF IsNone(superclass) THEN R2 ELSE R4
        R5 == scope_insert(begin_scope(Rs), "this", TRUE)
        R6 == resolve_methods(R5, statement.methods, 1)
        R7 == end_scope(R6)
        R8 == IF ~IsNone(superclass) THEN end_scope(R7) ELSE R7
    IN  IF ~R1.ok THEN R1
        ELSE IF ~IsNone(superclass) /\ superclass.k # "Variable"
        THEN Resolver_error(R2, Panic("Superclass should be a variable"))
        ELSE IF ~IsNone(superclass) /\ name = superclass.name
        THEN Resolver_error(R2, CLASS_INHERIT_SELF)
        ELSE IF ~IsNone(superclass) /\ ~R3.ok THEN R3
        ELSE IF ~R6.ok THEN R6
        ELSE [R8 EXCEPT !.current_class = enclosing_class]

resolve_statement(R, statement) ==
    CASE statement.k = "Block" ->
            LET R1 == resolve(begin_scope(R), statement.statements, 1) IN
            IF ~R1.ok THEN R1 ELSE end_scope(R1)
      [] statement.k = "Class" -> resolve_class(R, statement)
      [] statement.k = "Var" ->
            LET R1 == declare(R, statement.name)
                R2 == IF ~IsNone(statement.init)
                      THEN resolve_expression(R1, statement.init)
                      ELSE R1
            IN  IF ~R1.ok THEN R1
                ELSE IF ~R2.ok THEN R2
                ELSE define(R2, statement.name)
      [] statement.k = "Function" ->
            LET R1 == declare(R, statement.fun.name) IN
            IF ~R1.ok THEN R1
            ELSE resolve_function(define(R1, statement.fun.name), statement.fun, "Function")
      [] statement.k = "Expression" -> resolve_expression(R, statement.expr)
      [] statement.k = "If" ->
            LET R1 == resolve_expression(R, statement.condition)
                R2 == resolve_statement(R1, statement.then_branch)
            IN  IF ~R1.ok THEN R1
                ELSE IF ~R2.ok THEN R2
                ELSE IF ~IsNone(statement.else_branch)
                THEN resolve_statement(R2, statement.else_branch)
                ELSE R2
      [] statement.k = "Print" -> resolve_expression(R, statement.expr)
      [] statement.k = "Return" ->
            IF R.current_function = "None"
            THEN Resolver_error(R, RETURN_FROM_TOP_LEVEL)
            ELSE IF ~IsNone(statement.value)
            THEN IF R.current_function = "Initializer"
                 THEN Resolver_error(R, RETURN_FROM_INITIALIZER)
                 ELSE resolve_expression(R, statement.value)
            ELSE R
      [] statement.k = "While" ->
            LET R1 == resolve_expression(R, statement.condition) IN
            IF ~R1.ok THEN R1 ELSE resolve_statement(R1, statement.body)

\* the argument loop of the Call case
\* the arguments lo..hi in order, stopping at the first error; the
\* recursion halves the range
RECURSIVE resolve_each_range(_, _, _, _)
resolve_each_range(R, arguments, lo, hi) ==
    IF ~R.ok \/ lo > hi THEN R
    ELSE IF lo = hi THEN resolve_expression(R, arguments[lo])
    ELSE resolve_each_range(
             resolve_each_range(R, arguments, lo, (lo + hi) \div 2),
             arguments, (lo + hi) \div 2 + 1, hi)

resolve_each(R, arguments, i) == resolve_each_range(R, arguments, i, Len(arguments))

resolve_expression(R, expr) ==
    CASE expr.k = "Variable" ->
            IF /\ Len(R.scopes) > 0
               /\ Has(R.scopes[Len(R.scopes)], expr.name)
               /\ R.scopes[Len(R.scopes)][expr.name] = FALSE
            THEN Resolver_error(R, VARIABLE_IN_OWN_INITIALIZER)
            ELSE resolve_local(R, expr.id, expr.name)
      [] expr.k = "Assign" ->
            LET R1 == resolve_expression(R, expr.value) IN
            IF ~R1.ok THEN R1 ELSE resolve_local(R1, expr.id, expr.name)
      [] expr.k \in {"Binary", "Logical"} ->
            LET R1 == resolve_expression(R, expr.left) IN
            IF ~R1.ok THEN R1 ELSE resolve_expression(R1, expr.right)
      [] expr.k = "Call" ->
            LET R1 == resolve_expression(R, expr.callee) IN
            IF ~R1.ok THEN R1 ELSE resolve_each(R1, expr.arguments, 1)
      [] expr.k = "Grouping" -> resolve_expression(R, expr.expr)
      [] expr.k = "Literal" -> R
      [] expr.k = "Unary" -> resolve_expression(R, expr.right)
      [] expr.k = "Get" -> resolve_expression(R, expr.object)
      [] expr.k = "Set" ->
            LET R1 == resolve_expression(R, expr.value) IN
            IF ~R1.ok THEN R1 ELSE resolve_expression(R1, expr.object)
      [] expr.k = "This" ->
            IF R.current_class = "None"
            THEN Resolver_error(R, THIS_OUTSIDE_CLASS)
            ELSE resolve_local(R, expr.id, expr.keyword)
      [] expr.k = "Super" ->
            IF R.current_class = "None"
            THEN Resolver_error(R, SUPER_OUTSIDE_CLASS)
            ELSE IF R.current_class # "Subclass"
            THEN Resolver_error(R, SUPER_WITHOUT_SUPERCLASS)
            ELSE resolve_local(R, expr.id, expr.keyword)

(***************************************************************************)
(* Environment (environment.rs).  envs is the heap of frames; a frame is   *)
(* [values, parent], parent = 0 for None; an Environment handle is the     *)
(* index of its frame, so cloning a handle shares the frame.               *)
(***************************************************************************)
EnvironmentImpl_new == [values |-> EmptyMap, parent |-> 0]

EnvironmentImpl_with_parent(parent) == [values |-> EmptyMap, parent |-> parent]

\* the heap after Environment::new_enclosed; the new handle is Len of it
Environment_new_enclosed(envs, enclosing) ==
    Append(envs, EnvironmentImpl_with_parent(enclosing))

\* mutant: define overwrites the nearest binding of name up the chain, as
\* assign does, and creates a local one only when there is none
Environment_define_outward(envs, env, name, value) ==
    LET holder[e \in 0..Len(envs)] ==
            IF e = 0 THEN 0
            ELSE IF Has(envs[e].values, name) THEN e
            ELSE holder[envs[e].parent]
        target == IF holder[env] = 0 THEN env ELSE holder[env]
    IN  [envs EXCEPT ![target].values = Put(@, name, value)]

Environment_define(envs, env, name, value) ==
    [envs EXCEPT ![env].values = Put(@, name, value)]

RECURSIVE Environment_get(_, _, _)
Environment_get(envs, env, name) ==
    IF Has(envs[env].values, name)
    THEN [ok |-> TRUE, val |-> envs[env].values[name], err |-> ""]
    ELSE IF envs[env].parent # 0
    THEN Environment_get(envs, envs[env].parent, name)
    ELSE [ok |-> FALSE, val |-> Nil, err |-> UndefinedVariable(name)]

assign_to_local(envs, env, name, value) ==
    [envs EXCEPT ![env].values = Put(@, name, value)]

\* mutant: a name bound in no frame of the chain is created in the root
\* frame instead of being reported
RECURSIVE Environment_assign_implicit(_, _, _, _)
Environment_assign_implicit(envs, env, name, value) ==
    IF Has(envs[env].values, name) \/ envs[env].parent = 0
    THEN [ok |-> TRUE, envs |-> assign_to_local(envs, env, name, value), err |-> ""]
    ELSE Environment_assign_implicit(envs, envs[env].parent, name, value)

RECURSIVE Environment_assign(_, _, _, _)
Environment_assign(envs, env, name, value) ==
    IF Has(envs[env].values, name)
    THEN [ok |-> TRUE, envs |-> assign_to_local(envs, env, name, value), err |-> ""]
    ELSE IF envs[env].parent # 0
    THEN Environment_assign(envs, envs[env].parent, name, value)
    ELSE [ok |-> FALSE, envs |-> envs, err |-> UndefinedVariable(name)]

\* the frame distance links outward, or 0 when a parent is missing (the
\* expect panics)
RECURSIVE ancestor(_, _, _)
ancestor(envs, env, distance) ==
    IF distance = 0 THEN env
    ELSE IF envs[env].parent = 0 THEN 0
    ELSE ancestor(envs, envs[env].parent, distance - 1)

get_from_local(envs, env, name) ==
    IF Has(envs[env].values, name) THEN envs[env].values[name] ELSE Nil

NoParent == Panic("No parent environment found")

Environment_get_at(envs, env, distance, name) ==
    LET a == ancestor(envs, env, distance) IN
    IF a = 0
    THEN [ok |-> FALSE, val |-> Nil, err |-> NoParent]
    ELSE [ok |-> TRUE, val |-> get_from_local(envs, a, name), err |-> ""]

Environment_assign_at(envs, env, distance, name, value) ==
    LET a == ancestor(envs, env, distance) IN
    IF a = 0
    THEN [ok |-> FALSE, envs |-> envs, err |-> NoParent]
    ELSE [ok |-> TRUE, envs |-> assign_to_local(envs, a, name, value), err |-> ""]

(***************************************************************************)
(* Callables (callable.rs).  funs, classes and insts are the heaps of      *)
(* Rc<dyn LoxCallable> function objects, Rc<LoxClass> and                  *)
(* Rc<RefCell<LoxInstance>>.                                               *)
(***************************************************************************)
LoxFunction_new(fun, closure, is_initializer) ==
    [kind |-> "user", declaration |-> fun, closure |-> closure,
     is_initializer |-> is_initializer]

Native_clock ==
    [kind |-> "native", declaration |-> Function("clock", <<>>, <<>>),
     closure |-> 0, is_initializer |-> FALSE]

\* LoxClass holds its name and its own methods (name -> index in funs)
LoxClass_new(name, superclass, methods) == [name |-> name, methods |-> methods]

LoxInstance_new(klass) == [klass |-> klass, fields |-> EmptyMap]

\* the index in funs of the method, or 0 for None
find_method(klass, name) ==
    IF Has(klass.methods, name) THEN klass.methods[name] ELSE 0

LoxFunction_arity(f) ==
    IF f.kind = "native" THEN 0 ELSE Len(f.declaration.params)

LoxClass_arity(funs, klass) ==
    LET initializer == find_method(klass, "init") IN
    IF initializer # 0 THEN LoxFunction_arity(funs[initializer]) ELSE 0

LoxFunction_to_string(f) ==
    IF f.kind = "native" THEN "<native fn>" ELSE "<fn " \o f.declaration.name \o ">"

(***************************************************************************)
(* Interpreter (interpreter.rs).  I is the Interpreter together with the   *)
(* heaps: globals and environment are frame handles, locals the table      *)
(* written by the resolver, out the lines printed so far, now the reading  *)
(* the system clock gives.  absent is a history of the run and no field   *)
(* of the struct: the ids of the resolved nodes read or assigned while the *)
(* frame at their recorded depth did not contain their name.               *)
(***************************************************************************)
Interpreter_new ==
    [envs |-> <<[values |-> Put(EmptyMap, "clock", FunctionV(1)), parent |-> 0]>>,
     funs |-> <<Native_clock>>,
     classes |-> <<>>,
     insts |-> <<>>,
     globals |-> 1,
     environment |-> 1,
     locals |-> [x \in {} |-> 0],
     out |-> <<>>,
     now |-> 0,
     absent |-> {}]

\* results of evaluate (a value) and of execute (a ControlFlow), or an Err
Ok(I, v) == [I |-> I, ok |-> TRUE, brk |-> FALSE, val |-> v, err |-> ""]
Err(I, e) == [I |-> I, ok |-> FALSE, brk |-> FALSE, val |-> Nil, err |-> e]
Continue(I) == [I |-> I, ok |-> TRUE, brk |-> FALSE, val |-> Nil, err |-> ""]
Break(I, v) == [I |-> I, ok |-> TRUE, brk |-> TRUE, val |-> v, err |-> ""]

type_error(I, message) == Err(I, message)

\* the Display form println! writes for a value
stringify(I, v) ==
    CASE v.t = "num" -> IF v.s = "" THEN ToString(v.n) ELSE v.s
      [] v.t = "bool" -> IF v.n = 1 THEN "true" ELSE "false"
      [] v.t = "str" -> v.s
      [] v.t = "nil" -> "nil"
      [] v.t = "fun" -> LoxFunction_to_string(I.funs[v.n])
      [] v.t = "class" -> I.classes[v.n].name
      [] v.t = "inst" -> I.insts[v.n].klass.name \o " instance"

compare_number(op, l, r) ==
    CASE op = "==" -> l = r
      [] op = "!=" -> l # r
      [] op = "<" -> l < r
      [] op = "<=" -> l <= r
      [] op = ">" -> l > r
      [] op = ">=" -> l >= r

\* f64 division on the integers the model carries: an exact quotient is a
\* number, any other (a fraction, or infinity for r = 0) is kept symbolic
divide(l, r) ==
    IF r # 0 /\ (l % r) = 0
    THEN Number(l \div r)
    ELSE [t |-> "num", n |-> 0, s |-> ToString(l) \o "/" \o ToString(r)]

IsNumber(v) == v.t = "num"

binary_op(I, op, left, right) ==
    CASE IsNumber(left) /\ IsNumber(right) /\ (left.s # "" \/ right.s # "")
              /\ op \notin {"==", "!="} ->
            \* arithmetic on a non-integer: outside the integers of the model
            Err(I, "outside the model: arithmetic on a non-integer")
      [] op \in {"*", "-"} ->
            IF IsNumber(left) /\ IsNumber(right)
            THEN Ok(I, Number(IF op = "*" THEN left.n * right.n ELSE left.n - right.n))
            ELSE type_error(I, OPERANDS_MUST_BE_NUMBERS)
      [] op = "/" ->
            IF IsNumber(left) /\ IsNumber(right)
            THEN Ok(I, divide(left.n, right.n))
            ELSE type_error(I, OPERANDS_MUST_BE_NUMBERS)
      [] op = "+" ->
            IF IsNumber(left) /\ IsNumber(right)
            THEN Ok(I, Number(left.n + right.n))
            ELSE IF left.t = "str" /\ right.t = "str"
            THEN Ok(I, String(left.s \o right.s))
            ELSE type_error(I, OPERANDS_MUST_BE_NUMBERS_OR_STRINGS)
      [] op \in {"<", "<=", ">", ">="} ->
            IF IsNumber(left) /\ IsNumber(right)
            THEN Ok(I, Boolean(compare_number(op, left.n, right.n)))
            ELSE type_error(I, OPERANDS_MUST_BE_NUMBERS)
      [] op = "==" -> Ok(I, Boolean(left = right))
      [] op = "!=" -> Ok(I, Boolean(left # right))
      [] OTHER -> Err(I, Panic("not implemented"))

RECURSIVE evaluate(_, _)
RECURSIVE execute(_, _)
RECURSIVE execute_block(_, _, _)
RECURSIVE execute_statements(_, _, _, _)
RECURSIVE execute_while(_, _)
RECURSIVE evaluate_arguments(_, _, _, _)
RECURSIVE LoxFunction_call(_, _, _)

\* the zip loop of LoxFunction::call: define each parameter in env
RECURSIVE bind_parameters(_, _, _, _, _)
bind_parameters(envs, env, params, arguments, i) ==
    IF i > Len(params) \/ i > Len(arguments) THEN envs
    ELSE bind_parameters(Environment_define(envs, env, params[i], arguments[i]),
                         env, params, arguments, i + 1)

\* LoxFunction::bind: the bound function and the heap with its new frame
LoxFunction_bind(I, f, instance) ==
    LET envs1 == Environment_new_enclosed(I.envs, f.closure)
        env == Len(envs1)
        envs2 == Environment_define(envs1, env, "this", InstanceV(instance))
    IN  [I |-> [I EXCEPT !.envs = envs2],
         fun |-> LoxFunction_new(f.declaration, env, f.is_initializer)]

\* mutant: the initializer exception is left out
LoxFunction_call_no_init(I, f, arguments) ==
    LET envs1 == Environment_new_enclosed(I.envs, f.closure)
        env == Len(envs1)
        envs2 == bind_parameters(envs1, env, f.declaration.params, arguments, 1)
        result == execute_block([I EXCEPT !.envs = envs2], f.declaration.body, env)
    IN  IF ~result.ok THEN result
        ELSE IF result.brk THEN Ok(result.I, result.val)
        ELSE Ok(result.I, Nil)

\* mutant: the closure is captured by value: the call runs over a copy of
\* the closure frame, so what it assigns there no other function sees
LoxFunction_call_copied_closure(I, f, arguments) ==
    LET copied == Append(I.envs, I.envs[f.closure])
        envs1 == Environment_new_enclosed(copied, Len(copied))
        env == Len(envs1)
        envs2 == bind_parameters(envs1, env, f.declaration.params, arguments, 1)
        result == execute_block([I EXCEPT !.envs = envs2], f.declaration.body, env)
        this == Environment_get_at(result.I.envs, f.closure, 0, "this")
    IN  IF ~result.ok THEN result
        ELSE IF f.is_initializer
        THEN IF this.ok THEN Ok(result.I, this.val) ELSE Err(result.I, this.err)
        ELSE IF result.brk THEN Ok(result.I, result.val)
        ELSE Ok(result.I, Nil)

LoxFunction_call(I, f, arguments) ==
    LET envs1 == Environment_new_enclosed(I.envs, f.closure)
        env == Len(envs1)
        envs2 == bind_parameters(envs1, env, f.declaration.params, arguments, 1)
        result == execute_block([I EXCEPT !.envs = envs2], f.declaration.body, env)
        this == Environment_get_at(result.I.envs, f.closure, 0, "this")
    IN  IF ~result.ok THEN result
        ELSE IF f.is_initializer
        THEN IF this.ok THEN Ok(result.I, this.val) ELSE Err(result.I, this.err)
        ELSE IF result.brk THEN Ok(result.I, result.val)
        ELSE Ok(result.I, Nil)

Native_call(I, f, arguments) == Ok(I, Number(I.now))

LoxClass_call(I, klass, arguments) ==
    LET instance == LoxInstance_new(klass)
        I1 == [I EXCEPT !.insts = Append(@, instance)]
        rc_instance == Len(I1.insts)
        initializer == find_method(klass, "init")
        bound == LoxFunction_bind(I1, I1.funs[initializer], rc_instance)
        r == LoxFunction_call(bound.I, bound.fun, arguments)
    IN  IF initializer # 0
        THEN IF ~r.ok THEN r ELSE Ok(r.I, InstanceV(rc_instance))
        ELSE Ok(I1, InstanceV(rc_instance))

\* LoxInstance::get on the instance at index instance
LoxInstance_get(I, instance, name) ==
    LET self == I.insts[instance]
        method == find_method(self.klass, name)
        I1 == [I EXCEPT !.insts = Append(@, self)]
        copy == Len(I1.insts)
        bound == LoxFunction_bind(I1, I1.funs[method], copy)
        I2 == [bound.I EXCEPT !.funs = Append(@, bound.fun)]
    IN  IF Has(self.fields, name) THEN Ok(I, self.fields[name])
        ELSE IF method # 0 THEN Ok(I2, FunctionV(Len(I2.funs)))
        ELSE Err(I, UndefinedProperty(name))

LoxInstance_set(I, instance, name, value) ==
    [I EXCEPT !.insts[instance].fields = Put(@, name, value)]

\* mutant: the resolution table is ignored, every read walks the chain
\* from the current environment
lookup_variable_dynamic(I, exp_id, name) ==
    LET r == Environment_get(I.envs, I.environment, name) IN
    IF r.ok THEN Ok(I, r.val) ELSE Err(I, r.err)

\* the history after a get_at or assign_at for the node exp_id
noted(I, exp_id, distance, name) ==
    LET a == ancestor(I.envs, I.environment, distance) IN
    IF a # 0 /\ Has(I.envs[a].values, name) THEN I
    ELSE [I EXCEPT !.absent = @ \cup {exp_id}]

lookup_variable(I, exp_id, name) ==
    IF Has(I.locals, exp_id)
    THEN LET r == Environment_get_at(I.envs, I.environment, I.locals[exp_id], name) IN
         IF r.ok THEN Ok(noted(I, exp_id, I.locals[exp_id], name), r.val)
         ELSE Err(noted(I, exp_id, I.locals[exp_id], name), r.err)
    ELSE LET r == Environment_get(I.envs, I.globals, name) IN
         IF r.ok THEN Ok(I, r.val) ELSE Err(I, r.err)

\* the .map(evaluate).collect() of the Call case: stops at the first Err
evaluate_arguments(I, arguments, i, acc) ==
    IF i > Len(arguments) THEN [I |-> I, ok |-> TRUE, vals |-> acc, err |-> ""]
    ELSE LET r == evaluate(I, arguments[i]) IN
         IF ~r.ok THEN [I |-> r.I, ok |-> FALSE, vals |-> acc, err |-> r.err]
         ELSE evaluate_arguments(r.I, arguments, i + 1, Append(acc, r.val))

evaluate_assign(I, expr) ==
    LET v == evaluate(I, expr.value)
        at == Environment_assign_at(v.I.envs, v.I.environment,
                                    v.I.locals[expr.id], expr.name, v.val)
        gl == Environment_assign(v.I.envs, v.I.globals, expr.name, v.val)
    IN  IF ~v.ok THEN v
        ELSE IF Has(v.I.locals, expr.id)
        THEN IF at.ok
             THEN Ok([noted(v.I, expr.id, v.I.locals[expr.id], expr.name)
                         EXCEPT !.envs = at.envs], v.val)
             ELSE Err(noted(v.I, expr.id, v.I.locals[expr.id], expr.name), at.err)
        ELSE IF gl.ok THEN Ok([v.I EXCEPT !.envs = gl.envs], v.val) ELSE Err(v.I, gl.err)

\* mutant: the right operand is evaluated before the left
evaluate_binary_right_first(I, expr) ==
    LET right == evaluate(I, expr.right)
        left == evaluate(right.I, expr.left)
    IN  IF ~right.ok THEN right
        ELSE IF ~left.ok THEN left
        ELSE binary_op(left.I, expr.op, left.val, right.val)

evaluate_binary(I, expr) ==
    LET left == evaluate(I, expr.left)
        right == evaluate(left.I, expr.right)
    IN  IF ~left.ok THEN left
        ELSE IF ~right.ok THEN right
        ELSE binary_op(right.I, expr.op, left.val, right.val)

\* mutant: the arity check is left out
evaluate_call_unchecked(I, expr) ==
    LET callee == evaluate(I, expr.callee)
        args == evaluate_arguments(callee.I, expr.arguments, 1, <<>>)
        I2 == args.I
    IN  IF ~callee.ok THEN callee
        ELSE IF ~args.ok THEN Err(I2, args.err)
        ELSE IF callee.val.t \notin {"fun", "class"}
        THEN type_error(I2, "Can only call functions and classes.")
        ELSE IF callee.val.t = "class"
        THEN LoxClass_call(I2, I2.classes[callee.val.n], args.vals)
        ELSE IF I2.funs[callee.val.n].kind = "native"
        THEN Native_call(I2, I2.funs[callee.val.n], args.vals)
        ELSE LoxFunction_call(I2, I2.funs[callee.val.n], args.vals)

evaluate_call(I, expr) ==
    LET callee == evaluate(I, expr.callee)
        args == evaluate_arguments(callee.I, expr.arguments, 1, <<>>)
        I2 == args.I
        arity == IF callee.val.t = "fun"
                 THEN LoxFunction_arity(I2.funs[callee.val.n])
                 ELSE LoxClass_arity(I2.funs, I2.classes[callee.val.n])
    IN  IF ~callee.ok THEN callee
        ELSE IF ~args.ok THEN Err(I2, args.err)
        ELSE IF callee.val.t \notin {"fun", "class"}
        THEN type_error(I2, "Can only call functions and classes.")
        ELSE IF Len(args.vals) # arity
        THEN Err(I2, ArgumentCountError(arity, Len(args.vals)))
        ELSE IF callee.val.t = "class"
        THEN LoxClass_call(I2, I2.classes[callee.val.n], args.vals)
        ELSE IF I2.funs[callee.val.n].kind = "native"
        THEN Native_call(I2, I2.funs[callee.val.n], args.vals)
        ELSE LoxFunction_call(I2, I2.funs[callee.val.n], args.vals)

evaluate_get(I, expr) ==
    LET object == evaluate(I, expr.object) IN
    IF ~object.ok THEN object
    ELSE IF object.val.t = "inst"
    THEN LoxInstance_get(object.I, object.val.n, expr.name)
    ELSE type_error(object.I, ONLY_INSTANCES_HAVE_FIELDS)

\* mutant: both operands are always evaluated
evaluate_logical_eager(I, expr) ==
    LET left == evaluate(I, expr.left)
        right == evaluate(left.I, expr.right)
        left_truthy == is_truthy(left.val)
        eval_right == IF expr.op = "or" THEN ~left_truthy ELSE left_truthy
    IN  IF ~left.ok THEN left
        ELSE IF ~right.ok THEN right
        ELSE IF eval_right THEN right
        ELSE Ok(right.I, left.val)

evaluate_logical(I, expr) ==
    LET left == evaluate(I, expr.left)
        left_truthy == is_truthy(left.val)
        eval_right == IF expr.op = "or" THEN ~left_truthy ELSE left_truthy
    IN  IF ~left.ok THEN left
        ELSE IF expr.op \notin {"or", "and"} THEN Err(left.I, Panic("unreachable"))
        ELSE IF eval_right THEN evaluate(left.I, expr.right)
        ELSE left

evaluate_set(I, expr) ==
    LET object == evaluate(I, expr.object)
        value == evaluate(object.I, expr.value)
    IN  IF ~object.ok THEN object
        ELSE IF object.val.t = "inst"
        THEN IF ~value.ok THEN value
             ELSE Ok(LoxInstance_set(value.I, object.val.n, expr.name, value.val),
                     value.val)
        ELSE type_error(object.I, ONLY_INSTANCES_HAVE_FIELDS)

evaluate_super(I, expr) ==
    LET distance == I.locals[expr.id]
        superclass == Environment_get_at(I.envs, I.environment, distance, "super")
        object == Environment_get_at(I.envs, I.environment, distance - 1, "this")
        method == find_method(I.classes[superclass.val.n], expr.method)
        bound == LoxFunction_bind(I, I.funs[method], object.val.n)
        I2 == [bound.I EXCEPT !.funs = Append(@, bound.fun)]
    IN  IF ~Has(I.locals, expr.id) THEN Err(I, Panic("Super expression not resolved"))
        ELSE IF ~superclass.ok THEN Err(I, superclass.err)
        ELSE IF superclass.val.t # "class"
        THEN type_error(I, "Super reference must be a class.")
        ELSE IF distance = 0 THEN Err(I, Panic("attempt to subtract with overflow"))
        ELSE IF ~object.ok THEN Err(I, object.err)
        ELSE IF object.val.t # "inst"
        THEN type_error(I, "'this' reference must be an instance.")
        ELSE IF method = 0 THEN type_error(I, UndefinedProperty(expr.method))
        ELSE Ok(I2, FunctionV(Len(I2.funs)))

evaluate_unary(I, expr) ==
    LET literal == evaluate(I, expr.right) IN
    IF ~literal.ok THEN literal
    ELSE CASE expr.op = "!" -> Ok(literal.I, Boolean(~is_truthy(literal.val)))
           [] expr.op = "-" ->
                 IF IsNumber(literal.val) /\ literal.val.s = ""
                 THEN Ok(literal.I, Number(0 - literal.val.n))
                 ELSE IF IsNumber(literal.val)
                 THEN Err(literal.I, "outside the model: arithmetic on a non-integer")
                 ELSE type_error(literal.I, "Operand must be a number.")
           [] OTHER -> Err(literal.I, Panic("unreachable"))

evaluate(I, expr) ==
    CASE expr.k = "Assign" -> evaluate_assign(I, expr)
      [] expr.k = "Binary" -> evaluate_binary(I, expr)
      [] expr.k = "Call" -> evaluate_call(I, expr)
      [] expr.k = "Get" -> evaluate_get(I, expr)
      [] expr.k = "Grouping" -> evaluate(I, expr.expr)
      [] expr.k = "Literal" -> Ok(I, expr.value)
      [] expr.k = "Logical" -> evaluate_logical(I, expr)
      [] expr.k = "Set" -> evaluate_set(I, expr)
      [] expr.k = "Super" -> evaluate_super(I, expr)
      [] expr.k = "This" -> lookup_variable(I, expr.id, expr.keyword)
      [] expr.k = "Unary" -> evaluate_unary(I, expr)
      [] expr.k = "Variable" -> lookup_variable(I, expr.id, expr.name)

\* the methods.iter().map(..).collect() of the Class case: one function
\* object per method, closure the current environment; a later method of
\* the same name replaces the earlier in the map
RECURSIVE collect_methods(_, _, _, _)
collect_methods(I, methods, i, acc) ==
    IF i > Len(methods) THEN [I |-> I, methods |-> acc]
    ELSE LET is_initializer == methods[i].name = "init"
             function == LoxFunction_new(methods[i], I.environment, is_initializer)
             I1 == [I EXCEPT !.funs = Append(@, function)]
         IN  collect_methods(I1, methods, i + 1, Put(acc, methods[i].name, Len(I1.funs)))

\* mutant: the frame pushed for super is not popped before the name is
\* assigned
execute_class_pushed(sup, statement) ==
    LET has_super == ~IsNone(statement.superclass)
        I0 == sup.I
        I1 == [I0 EXCEPT !.envs = Environment_define(@, I0.environment, statement.name, Nil)]
        pushed == Environment_new_enclosed(I1.envs, I1.environment)
        I2 == IF has_super
              THEN [I1 EXCEPT !.envs = Environment_define(pushed, Len(pushed), "super", sup.val),
                              !.environment = Len(pushed)]
              ELSE I1
        ms == collect_methods(I2, statement.methods, 1, EmptyMap)
        class == LoxClass_new(statement.name,
                              IF has_super THEN sup.val.n ELSE 0, ms.methods)
        I4 == [ms.I EXCEPT !.classes = Append(@, class)]
        a == Environment_assign(I4.envs, I4.environment, statement.name,
                                ClassV(Len(I4.classes)))
    IN  IF has_super /\ ~sup.ok THEN sup
        ELSE IF has_super /\ sup.val.t # "class"
        THEN type_error(sup.I, "Superclass must be a class.")
        ELSE IF ~a.ok THEN Err(I4, a.err)
        ELSE Continue([I4 EXCEPT !.envs = a.envs])

\* the Class case from the definition of the name on; sup is the evaluated
\* superclass expression, Ok(I, Nil) where the class names none
execute_class(sup, statement) ==
    LET has_super == ~IsNone(statement.superclass)
        I0 == sup.I
        I1 == [I0 EXCEPT !.envs = Environment_define(@, I0.environment, statement.name, Nil)]
        pushed == Environment_new_enclosed(I1.envs, I1.environment)
        I2 == IF has_super
              THEN [I1 EXCEPT !.envs = Environment_define(pushed, Len(pushed), "super", sup.val),
                              !.environment = Len(pushed)]
              ELSE I1
        ms == collect_methods(I2, statement.methods, 1, EmptyMap)
        I3 == IF has_super
              THEN [ms.I EXCEPT !.environment = ancestor(ms.I.envs, ms.I.environment, 1)]
              ELSE ms.I
        class == LoxClass_new(statement.name,
                              IF has_super THEN sup.val.n ELSE 0, ms.methods)
        I4 == [I3 EXCEPT !.classes = Append(@, class)]
        a == Environment_assign(I4.envs, I4.environment, statement.name,
                                ClassV(Len(I4.classes)))
    IN  IF has_super /\ ~sup.ok THEN sup
        ELSE IF has_super /\ sup.val.t # "class"
        THEN type_error(sup.I, "Superclass must be a class.")
        ELSE IF ~a.ok THEN Err(I4, a.err)
        ELSE Continue([I4 EXCEPT !.envs = a.envs])

\* the loop of execute_block from statement i on; previous_env is restored
\* on Break and at the end, not when a statement returns Err
execute_statements(I, statements, i, previous_env) ==
    IF i > Len(statements) THEN Continue([I EXCEPT !.environment = previous_env])
    ELSE LET r == execute(I, statements[i]) IN
         IF ~r.ok THEN r
         ELSE IF r.brk THEN Break([r.I EXCEPT !.environment = previous_env], r.val)
         ELSE execute_statements(r.I, statements, i + 1, previous_env)

execute_block(I, statements, env) ==
    LET previous_env == I.environment IN
    execute_statements([I EXCEPT !.environment = env], statements, 1, previous_env)

\* mutant: a Break from the body only leaves the loop, as a break statement
\* would, and the function body goes on after it
execute_while_swallow(c, statement) ==
    LET b == execute(c.I, statement.body) IN
    IF ~c.ok THEN c
    ELSE IF ~is_truthy(c.val) THEN Continue(c.I)
    ELSE IF ~b.ok THEN b
    ELSE IF b.brk THEN Continue(b.I)
    ELSE execute_while(evaluate(b.I, statement.condition), statement)

\* the While case; c is the condition evaluated for the coming iteration
execute_while(c, statement) ==
    LET b == execute(c.I, statement.body) IN
    IF ~c.ok THEN c
    ELSE IF ~is_truthy(c.val) THEN Continue(c.I)
    ELSE IF ~b.ok THEN b
    ELSE IF b.brk THEN Break(b.I, b.val)
    ELSE execute_while(evaluate(b.I, statement.condition), statement)

\* the Expression case, r the evaluated expression
execute_expression(r) == IF ~r.ok THEN r ELSE Continue(r.I)

\* the If case, c the evaluated condition
execute_if(c, statement) ==
    IF ~c.ok THEN c
    ELSE IF is_truthy(c.val) THEN execute(c.I, statement.then_branch)
    ELSE IF ~IsNone(statement.else_branch)
    THEN execute(c.I, statement.else_branch)
    ELSE Continue(c.I)

\* the Print case, r the evaluated expression
execute_print(r) ==
    IF ~r.ok THEN r
    ELSE Continue([r.I EXCEPT !.out = Append(@, stringify(r.I, r.val))])

\* the Var case, r the evaluated initializer (nil where there is none)
execute_var(r, statement) ==
    IF ~r.ok THEN r
    ELSE Continue([r.I EXCEPT
            !.envs = Environment_define(@, r.I.environment, statement.name, r.val)])

\* the Return case, rv the evaluated value (nil where there is none)
execute_return(rv) == IF ~rv.ok THEN rv ELSE Break(rv.I, rv.val)

execute(I, statement) ==
    CASE statement.k = "Block" ->
            LET envs1 == Environment_new_enclosed(I.envs, I.environment) IN
            execute_block([I EXCEPT !.envs = envs1], statement.statements, Len(envs1))
      [] statement.k = "Class" ->
            execute_class(IF ~IsNone(statement.superclass)
                          THEN evaluate(I, statement.superclass)
                          ELSE Ok(I, Nil),
                          statement)
      [] statement.k = "Expression" ->
            execute_expression(evaluate(I, statement.expr))
      [] statement.k = "If" ->
            execute_if(evaluate(I, statement.condition), statement)
      [] statement.k = "Print" -> execute_print(evaluate(I, statement.expr))
      [] statement.k = "Var" ->
            execute_var(IF ~IsNone(statement.init)
                        THEN evaluate(I, statement.init)
                        ELSE Ok(I, Nil),
                        statement)
      [] statement.k = "While" ->
            execute_while(evaluate(I, statement.condition), statement)
      [] statement.k = "Function" ->
            LET fun == LoxFunction_new(statement.fun, I.environment, FALSE)
                I1 == [I EXCEPT !.funs = Append(@, fun)]
            IN  Continue([I1 EXCEPT
                    !.envs = Environment_define(@, I1.environment, statement.fun.name,
                                                FunctionV(Len(I1.funs)))])
      [] statement.k = "Return" ->
            execute_return(IF ~IsNone(statement.value)
                           THEN evaluate(I, statement.value)
                           ELSE Ok(I, Nil))

(***************************************************************************)
(* The evaluator of the command-line binary (interpret.rs, called by the   *)
(* evaluate command of main.rs).  It has no state; a result is the value   *)
(* or the message of the Err; a panic is an Err with the panic message.    *)
(***************************************************************************)
Value(v) == [ok |-> TRUE, val |-> v, err |-> ""]
Failure(message) == [ok |-> FALSE, val |-> Nil, err |-> message]

variant_eq(a, b) == a.t = b.t

compare_string(op, l, r) ==
    CASE op = "==" -> Value(Boolean(l = r))
      [] op = "!=" -> Value(Boolean(l # r))
      [] OTHER -> Failure(Panic("internal error: entered unreachable code"))

interpret_unary(op, literal) ==
    CASE op = "!" ->
            CASE literal.t = "bool" -> Value(Boolean(literal.n # 1))
              [] literal.t = "num" -> Value(Boolean(literal.n = 0 /\ literal.s = ""))
              [] literal.t = "str" -> Value(Boolean(literal.s = ""))
              [] literal.t = "nil" -> Value(Boolean(TRUE))
      [] op = "-" ->
            IF IsNumber(literal) /\ literal.s = ""
            THEN Value(Number(0 - literal.n))
            ELSE IF IsNumber(literal)
            THEN Failure("outside the model: arithmetic on a non-integer")
            ELSE Failure("Operand must be a number.")
      [] OTHER -> Failure(Panic("internal error: entered unreachable code"))

interpret_binary(op, left, right) ==
    CASE IsNumber(left) /\ IsNumber(right) /\ (left.s # "" \/ right.s # "") ->
            Failure("outside the model: arithmetic on a non-integer")
      [] op \in {"*", "-"} ->
            IF IsNumber(left) /\ IsNumber(right)
            THEN Value(Number(IF op = "*" THEN left.n * right.n ELSE left.n - right.n))
            ELSE Failure("Operands must be numbers.")
      [] op = "/" ->
            IF IsNumber(left) /\ IsNumber(right)
            THEN Value(divide(left.n, right.n))
            ELSE Failure("Operands must be numbers.")
      [] op = "+" ->
            IF IsNumber(left) /\ IsNumber(right)
            THEN Value(Number(left.n + right.n))
            ELSE IF left.t = "str" /\ right.t = "str"
            THEN Value(String(left.s \o right.s))
            ELSE Failure("Operands must be two numbers or two strings.")
      [] op \in {"<", "<=", ">", ">="} ->
            IF IsNumber(left) /\ IsNumber(right)
            THEN Value(Boolean(compare_number(op, left.n, right.n)))
            ELSE Failure("Operands must be numbers.")
      [] op \in {"==", "!="} ->
            IF ~variant_eq(left, right) THEN Value(Boolean(FALSE))
            ELSE IF IsNumber(left)
            THEN Value(Boolean(compare_number(op, left.n, right.n)))
            ELSE IF left.t = "str" THEN compare_string(op, left.s, right.s)
            ELSE Failure(Panic("internal error: entered unreachable code"))
      [] OTHER -> Failure(Panic("not yet implemented"))

RECURSIVE interpret_evaluate(_)
interpret_evaluate(expr) ==
    CASE expr.k = "Literal" -> Value(expr.value)
      [] expr.k = "Grouping" -> interpret_evaluate(expr.expr)
      [] expr.k = "Unary" ->
            LET literal == interpret_evaluate(expr.right) IN
            IF ~literal.ok THEN literal ELSE interpret_unary(expr.op, literal.val)
      [] expr.k = "Binary" ->
            LET left == interpret_evaluate(expr.left)
                right == interpret_evaluate(expr.right)
            IN  IF ~left.ok THEN left
                ELSE IF ~right.ok THEN right
                ELSE interpret_binary(expr.op, left.val, right.val)

\* Display of a Literal (grammar.rs): a whole number is written with .0
\* Display with nil written as null, as in the literal column of a token
Literal_fmt_null(v) ==
    CASE v.t = "bool" -> IF v.n = 1 THEN "true" ELSE "false"
      [] v.t = "str" -> v.s
      [] v.t = "num" -> IF v.s = "" THEN ToString(v.n) \o ".0" ELSE v.s
      [] v.t = "nil" -> "null"

Literal_fmt(v) ==
    CASE v.t = "bool" -> IF v.n = 1 THEN "true" ELSE "false"
      [] v.t = "str" -> v.s
      [] v.t = "num" -> IF v.s = "" THEN ToString(v.n) \o ".0" ELSE v.s
      [] v.t = "nil" -> "nil"

(***************************************************************************)
(* The scanner (scanner.rs), at the granularity of lexemes: the source is  *)
(* a sequence of lines, a line the sequence of the slices the scanner      *)
(* cuts out of it (white space is dropped).  A number is one digit.        *)
(***************************************************************************)
Token(token_type, lexeme, literal, line) ==
    [token_type |-> token_type, lexeme |-> lexeme, literal |-> literal, line |-> line]

Digits == <<"0", "1", "2", "3", "4", "5", "6", "7", "8", "9">>

\* a slice that starts with a digit: handle_number takes the digits and a
\* fraction; here one digit, alone or with the fraction .0
is_ascii_digit(lexeme) ==
    \E d \in 1..Len(Digits) : lexeme \in {Digits[d], Digits[d] \o ".0"}

\* str::parse of the slice
parse_number(lexeme) ==
    (CHOOSE d \in 1..Len(Digits) : lexeme \in {Digits[d], Digits[d] \o ".0"}) - 1

\* the contents of the string literals of the programs
StringContents == {"s", "nil", "1"}

\* a slice from a quote to the next quote
Quoted(content) == "\"" \o content \o "\""

is_string(lexeme) == \E content \in StringContents : lexeme = Quoted(content)

\* the slice without the surrounding quotes
trim_quotes(lexeme) == CHOOSE content \in StringContents : lexeme = Quoted(content)

get_token_type(identifier) ==
    CASE identifier = "and" -> "AND"
      [] identifier = "class" -> "CLASS"
      [] identifier = "else" -> "ELSE"
      [] identifier = "false" -> "FALSE"
      [] identifier = "for" -> "FOR"
      [] identifier = "fun" -> "FUN"
      [] identifier = "if" -> "IF"
      [] identifier = "nil" -> "NIL"
      [] identifier = "or" -> "OR"
      [] identifier = "print" -> "PRINT"
      [] identifier = "return" -> "RETURN"
      [] identifier = "super" -> "SUPER"
      [] identifier = "this" -> "THIS"
      [] identifier = "true" -> "TRUE"
      [] identifier = "var" -> "VAR"
      [] identifier = "while" -> "WHILE"
      [] OTHER -> "IDENTIFIER"

scan_token(lexeme, line) ==
    CASE lexeme = "(" -> Token("LEFT_PAREN", lexeme, None, line)
      [] lexeme = ")" -> Token("RIGHT_PAREN", lexeme, None, line)
      [] lexeme = "{" -> Token("LEFT_BRACE", lexeme, None, line)
      [] lexeme = "}" -> Token("RIGHT_BRACE", lexeme, None, line)
      [] lexeme = "," -> Token("COMMA", lexeme, None, line)
      [] lexeme = "." -> Token("DOT", lexeme, None, line)
      [] lexeme = "-" -> Token("MINUS", lexeme, None, line)
      [] lexeme = "+" -> Token("PLUS", lexeme, None, line)
      [] lexeme = ";" -> Token("SEMICOLON", lexeme, None, line)
      [] lexeme = "*" -> Token("STAR", lexeme, None, line)
      [] lexeme = "=" -> Token("EQUAL", lexeme, None, line)
      [] lexeme = "==" -> Token("EQUAL_EQUAL", lexeme, None, line)
      [] lexeme = "!" -> Token("BANG", lexeme, None, line)
      [] lexeme = "!=" -> Token("BANG_EQUAL", lexeme, None, line)
      [] lexeme = "<" -> Token("LESS", lexeme, None, line)
      [] lexeme = "<=" -> Token("LESS_EQUAL", lexeme, None, line)
      [] lexeme = ">" -> Token("GREATER", lexeme, None, line)
      [] lexeme = ">=" -> Token("GREATER_EQUAL", lexeme, None, line)
      [] lexeme = "/" -> Token("SLASH", lexeme, None, line)
      [] is_string(lexeme) ->
            Token("STRING", lexeme, String(trim_quotes(lexeme)), line)
      [] is_ascii_digit(lexeme) ->
            Token("NUMBER", lexeme, Number(parse_number(lexeme)), line)
      [] OTHER -> Token(get_token_type(lexeme), lexeme, None, line)

\* the tokens of the lines from line on
RECURSIVE scan_lines(_, _)
scan_lines(lines, line) ==
    IF line > Len(lines) THEN <<>>
    ELSE [i \in 1..Len(lines[line]) |-> scan_token(lines[line][i], line)]
           \o scan_lines(lines, line + 1)

scan_tokens(lines) ==
    scan_lines(lines, 1) \o <<Token("EOF", "", None, Len(lines))>>

(***************************************************************************)
(* The parser (parser.rs).  The parser state P holds the tokens, the index *)
(* of the current token (from 1) and the next expression id.  A result     *)
(* carries the state after the call, and either the node that was parsed   *)
(* or the ParserError.  The nodes keep the lexeme of a name or operator    *)
(* token, as the rest of the model does.                                   *)
(***************************************************************************)
NoError == [line |-> 0, lexeme |-> "", message |-> ""]

Parser_new(tokens) == [tokens |-> tokens, current |-> 1, next_id |-> 0]

Parsed(P, v) == [P |-> P, ok |-> TRUE, val |-> v, err |-> NoError]

\* the result of a pass of a loop that goes round again, the items so far
\* in val
Again(P, v) == [P |-> P, ok |-> TRUE, val |-> v, err |-> NoError, again |-> TRUE]

IsAgain(r) == "again" \in DOMAIN r

Parser_error(P, token, message) ==
    [P |-> P, ok |-> FALSE, val |-> None,
     err |-> [line |-> token.line, lexeme |-> token.lexeme, message |-> message]]

peek(P) == P.tokens[P.current]

previous(P) == P.tokens[P.current - 1]

is_at_end(P) == peek(P).token_type = "EOF"

check(P, token_type) == ~is_at_end(P) /\ peek(P).token_type = token_type

\* mutant: the cursor moves on from the EOF token too
advance_past(P) == [P EXCEPT !.current = @ + 1]

advance(P) == IF ~is_at_end(P) THEN [P EXCEPT !.current = @ + 1] ELSE P

\* match_: whether the current token has one of the types; the caller
\* continues from advance(P) when it has
match_(P, token_types) == \E token_type \in token_types : check(P, token_type)

consume(P, token_type, message) ==
    IF check(P, token_type)
    THEN Parsed(advance(P), previous(advance(P)))
    ELSE Parser_error(P, peek(P), message)

next_id(P) == [P EXCEPT !.next_id = @ + 1]

RECURSIVE expression(_)
RECURSIVE next_precedence(_, _)
RECURSIVE logical_operation(_, _, _)
RECURSIVE binary_operation(_, _, _)
RECURSIVE unary(_)
RECURSIVE call_loop(_)
RECURSIVE finish_call_loop(_, _, _)
RECURSIVE finish_call_arguments(_, _)
RECURSIVE primary(_)
RECURSIVE declaration(_)
RECURSIVE statement(_)
RECURSIVE block_loop(_, _)
RECURSIVE parameters_loop(_, _, _)
RECURSIVE parameters(_, _)
RECURSIVE methods_loop(_, _)
RECURSIVE parse_loop(_, _)

\* the match on the left side, once the value is parsed: previous() is by
\* then the last token of the value
expression_assign(expr, value) ==
    IF ~value.ok THEN value
    ELSE CASE expr.k = "Variable" ->
                 Parsed(next_id(value.P), Assign(value.P.next_id, expr.name, value.val))
           [] expr.k = "Get" ->
                 Parsed(value.P, Set(expr.object, expr.name, value.val))
           [] OTHER ->
                 Parser_error(value.P, previous(value.P), "Invalid assignment target.")

expression_equal(expr) ==
    IF expr.ok
    THEN IF match_(expr.P, {"EQUAL"})
         THEN expression_assign(expr.val, expression(advance(expr.P)))
         ELSE expr
    ELSE expr

logical_operation_right(left, op, right, operators, next) ==
    IF right.ok
    THEN logical_operation(
             Parsed(right.P, Logical(left, op.lexeme, right.val)), operators, next)
    ELSE right

\* logical_operation from its first operand on: left is the result of the
\* first next_precedence(self), which the caller passes
logical_operation(left, operators, next) ==
    IF left.ok
    THEN IF match_(left.P, operators)
         THEN logical_operation_right(left.val, previous(advance(left.P)),
                                      next_precedence(advance(left.P), next),
                                      operators, next)
         ELSE left
    ELSE left

binary_operation_right(left, op, right, operators, next) ==
    IF right.ok
    THEN binary_operation(
             Parsed(right.P, Binary(left, op.lexeme, right.val)), operators, next)
    ELSE right

\* binary_operation from its first operand on, as logical_operation
binary_operation(left, operators, next) ==
    IF left.ok
    THEN IF match_(left.P, operators)
         THEN binary_operation_right(left.val, previous(advance(left.P)),
                                     next_precedence(advance(left.P), next),
                                     operators, next)
         ELSE left
    ELSE left

factor(P) == binary_operation(unary(P), {"SLASH", "STAR"}, "unary")

\* term with the operands of unary, above factor
term_over_factor(P) == binary_operation(unary(P), {"MINUS", "PLUS"}, "unary")

term(P) == binary_operation(factor(P), {"MINUS", "PLUS"}, "factor")

comparison(P) ==
    binary_operation(term(P), {"GREATER", "GREATER_EQUAL", "LESS", "LESS_EQUAL"},
                     "term")

equality(P) ==
    binary_operation(comparison(P), {"BANG_EQUAL", "EQUAL_EQUAL"}, "comparison")

logic_and(P) == logical_operation(equality(P), {"AND"}, "equality")

logic_or(P) == logical_operation(logic_and(P), {"OR"}, "logic_and")

expression(P) == expression_equal(logic_or(P))

\* the call of a fn(&mut Self) argument, by the name of the method
next_precedence(P, next) ==
    CASE next = "logic_and" -> logic_and(P)
      [] next = "equality" -> equality(P)
      [] next = "comparison" -> comparison(P)
      [] next = "term" -> term(P)
      [] next = "factor" -> factor(P)
      [] next = "unary" -> unary(P)

call(P) == call_loop(primary(P))

unary_right(op, right) ==
    IF right.ok THEN Parsed(right.P, Unary(op.lexeme, right.val)) ELSE right

unary(P) ==
    IF match_(P, {"BANG", "MINUS"})
    THEN unary_right(previous(advance(P)), unary(advance(P)))
    ELSE call(P)

finish_call_close(callee, arguments) ==
    IF arguments.ok
    THEN LET paren == consume(arguments.P, "RIGHT_PAREN", "Expect ')' after arguments.")
         IN  IF ~paren.ok THEN paren
             ELSE Parsed(paren.P, Call(callee, arguments.val))
    ELSE arguments

\* one pass of the loop of finish_call: the result is Again when a comma
\* follows the argument
finish_call_push(arguments, argument) ==
    IF argument.ok
    THEN IF match_(argument.P, {"COMMA"})
         THEN Again(advance(argument.P), Append(arguments, argument.val))
         ELSE Parsed(argument.P, Append(arguments, argument.val))
    ELSE argument

finish_call_pass(P, arguments) ==
    IF Len(arguments) >= 255
    THEN Parser_error(P, peek(P), "Cannot have more than 255 arguments.")
    ELSE finish_call_push(arguments, expression(P))

\* the loop: passes until one is not Again.  finish_call_loop runs up to 2^k
\* passes in depth k, finish_call_arguments runs it for k = 0, 1, ... until
\* the loop has ended by its own test
finish_call_again(r, k) ==
    IF IsAgain(r) THEN finish_call_loop(r.P, r.val, k) ELSE r

finish_call_loop(P, arguments, k) ==
    IF k = 0 THEN finish_call_pass(P, arguments)
    ELSE finish_call_again(finish_call_loop(P, arguments, k - 1), k - 1)

finish_call_arguments(r, k) ==
    IF IsAgain(r) THEN finish_call_arguments(finish_call_loop(r.P, r.val, k), k + 1)
    ELSE r

finish_call(P, callee) ==
    finish_call_close(callee,
                      IF ~check(P, "RIGHT_PAREN")
                      THEN finish_call_arguments(finish_call_pass(P, <<>>), 0)
                      ELSE Parsed(P, <<>>))

call_get(object, name) ==
    IF ~name.ok THEN name
    ELSE call_loop(Parsed(name.P, Get(object, name.val.lexeme)))

call_loop(expr) ==
    IF expr.ok
    THEN CASE match_(expr.P, {"LEFT_PAREN"}) ->
                 call_loop(finish_call(advance(expr.P), expr.val))
           [] match_(expr.P, {"DOT"}) ->
                 call_get(expr.val,
                          consume(advance(expr.P), "IDENTIFIER",
                                  "Expect property name after '.'"))
           [] OTHER -> expr
    ELSE expr

primary_grouping(expr) ==
    IF expr.ok
    THEN LET paren == consume(expr.P, "RIGHT_PAREN", "Expect ')' after expression.")
         IN  IF ~paren.ok THEN paren
             ELSE Parsed(paren.P, Grouping(expr.val))
    ELSE expr

primary(P) ==
    CASE match_(P, {"FALSE"}) -> Parsed(advance(P), Literal(Boolean(FALSE)))
      [] match_(P, {"TRUE"}) -> Parsed(advance(P), Literal(Boolean(TRUE)))
      [] match_(P, {"NIL"}) -> Parsed(advance(P), Literal(Nil))
      [] match_(P, {"NUMBER", "STRING"}) -> Parsed(advance(P), Literal(peek(P).literal))
      [] match_(P, {"THIS"}) -> Parsed(next_id(advance(P)), This(P.next_id))
      [] match_(P, {"IDENTIFIER"}) ->
            Parsed(next_id(advance(P)), Variable(P.next_id, peek(P).lexeme))
      [] match_(P, {"LEFT_PAREN"}) -> primary_grouping(expression(advance(P)))
      [] OTHER -> Parser_error(P, peek(P), "Expect expression.")

\* the end of variable(): the optional initializer is parsed
variable_end(name, init) ==
    IF ~init.ok THEN init
    ELSE LET semi == consume(init.P, "SEMICOLON", "Expect ';' after variable declaration.")
         IN  IF ~semi.ok THEN semi
             ELSE Parsed(semi.P, VariableS(name.lexeme, init.val))

variable(P) ==
    LET name == consume(P, "IDENTIFIER", "Expect variable name.") IN
    IF ~name.ok THEN name
    ELSE variable_end(name.val,
                      IF match_(name.P, {"EQUAL"})
                      THEN expression(advance(name.P))
                      ELSE Parsed(name.P, None))

\* statement(): the expression of a print or expression statement is parsed
statement_print(expr) ==
    IF ~expr.ok THEN expr
    ELSE LET semi == consume(expr.P, "SEMICOLON", "Expect ';' after value.")
         IN  IF ~semi.ok THEN semi ELSE Parsed(semi.P, PrintS(expr.val))

statement_expression(expr) ==
    IF expr.ok
    THEN LET semi == consume(expr.P, "SEMICOLON", "Expect ';' after expression.")
         IN  IF ~semi.ok THEN semi ELSE Parsed(semi.P, ExpressionS(expr.val))
    ELSE expr

statement_block(statements) ==
    IF statements.ok THEN Parsed(statements.P, BlockS(statements.val))
    ELSE statements

block_push(statements, stmt) ==
    IF stmt.ok THEN block_loop(stmt.P, Append(statements, stmt.val)) ELSE stmt

block_loop(P, statements) ==
    IF ~check(P, "RIGHT_BRACE") /\ ~is_at_end(P)
    THEN block_push(statements, declaration(P))
    ELSE LET brace == consume(P, "RIGHT_BRACE", "Expect '}' after block.")
         IN  IF ~brace.ok THEN brace ELSE Parsed(brace.P, statements)

block(P) == block_loop(P, <<>>)

\* the desugaring at the end of for_statement
for_desugar(initializer, condition, increment, body) ==
    IF ~body.ok THEN body
    ELSE LET with_increment ==
                 IF ~IsNone(increment)
                 THEN BlockS(<<body.val, ExpressionS(increment)>>)
                 ELSE body.val
             loop == WhileS(condition, with_increment)
         IN  Parsed(body.P, IF ~IsNone(initializer)
                            THEN BlockS(<<initializer, loop>>)
                            ELSE loop)

for_body(initializer, condition, increment) ==
    IF ~increment.ok THEN increment
    ELSE LET paren == consume(increment.P, "RIGHT_PAREN", "Expect ')' after for clauses.")
         IN  IF ~paren.ok THEN paren
             ELSE for_desugar(initializer, condition, increment.val, statement(paren.P))

for_increment(initializer, condition) ==
    IF ~condition.ok THEN condition
    ELSE LET semi == consume(condition.P, "SEMICOLON", "Expect ';' after loop condition.")
         IN  IF ~semi.ok THEN semi
             ELSE for_body(initializer, condition.val,
                           IF ~check(semi.P, "RIGHT_PAREN")
                           THEN expression(semi.P)
                           ELSE Parsed(semi.P, None))

for_condition(initializer) ==
    IF ~initializer.ok THEN initializer
    ELSE for_increment(initializer.val,
                       IF ~check(initializer.P, "SEMICOLON")
                       THEN expression(initializer.P)
                       ELSE Parsed(initializer.P, Literal(Boolean(TRUE))))

for_statement(P) ==
    LET paren == consume(P, "LEFT_PAREN", "Expect '(' after 'for'.") IN
    IF ~paren.ok THEN paren
    ELSE IF match_(paren.P, {"SEMICOLON"})
    THEN for_condition(Parsed(advance(paren.P), None))
    ELSE IF match_(paren.P, {"VAR"})
    THEN for_condition(variable(advance(paren.P)))
    ELSE for_condition(statement(paren.P))

if_else(condition, then_branch, else_branch) ==
    IF ~else_branch.ok THEN else_branch
    ELSE Parsed(else_branch.P, IfS(condition, then_branch, else_branch.val))

if_then(condition, then_branch) ==
    IF ~then_branch.ok THEN then_branch
    ELSE if_else(condition, then_branch.val,
                 IF match_(then_branch.P, {"ELSE"})
                 THEN statement(advance(then_branch.P))
                 ELSE Parsed(then_branch.P, None))

if_condition(condition) ==
    IF ~condition.ok THEN condition
    ELSE LET paren == consume(condition.P, "RIGHT_PAREN", "Expect ')' after if condition.")
         IN  IF ~paren.ok THEN paren
             ELSE if_then(condition.val, statement(paren.P))

if_statement(P) ==
    LET paren == consume(P, "LEFT_PAREN", "Expect '(' after 'if'.") IN
    IF paren.ok THEN if_condition(expression(paren.P)) ELSE paren

return_value(value) ==
    IF ~value.ok THEN value
    ELSE LET semi == consume(value.P, "SEMICOLON", "Expect ';' after return value.")
         IN  IF ~semi.ok THEN semi ELSE Parsed(semi.P, ReturnS(value.val))

return_statement(P) ==
    return_value(IF ~check(P, "SEMICOLON") THEN expression(P) ELSE Parsed(P, None))

while_body(condition, body) ==
    IF body.ok THEN Parsed(body.P, WhileS(condition, body.val)) ELSE body

while_condition(condition) ==
    IF ~condition.ok THEN condition
    ELSE LET paren == consume(condition.P, "RIGHT_PAREN", "Expect ')' after condition.")
         IN  IF ~paren.ok THEN paren
             ELSE while_body(condition.val, statement(paren.P))

while_statement(P) ==
    LET paren == consume(P, "LEFT_PAREN", "Expect '(' after 'while'.") IN
    IF paren.ok THEN while_condition(expression(paren.P)) ELSE paren

statement(P) ==
    CASE match_(P, {"FOR"}) -> for_statement(advance(P))
      [] match_(P, {"IF"}) -> if_statement(advance(P))
      [] match_(P, {"PRINT"}) -> statement_print(expression(advance(P)))
      [] match_(P, {"RETURN"}) -> return_statement(advance(P))
      [] match_(P, {"WHILE"}) -> while_statement(advance(P))
      [] match_(P, {"LEFT_BRACE"}) -> statement_block(block(advance(P)))
      [] OTHER -> statement_expression(expression(P))

\* function(kind): the name, the parameter list, the body
function_body(name, params, body) ==
    IF body.ok THEN Parsed(body.P, Function(name.lexeme, params, body.val)) ELSE body

function_brace(kind, name, params) ==
    IF ~params.ok THEN params
    ELSE LET paren == consume(params.P, "RIGHT_PAREN", "Expect ')' after parameters.")
             brace == consume(paren.P, "LEFT_BRACE", "Expect '{' before " \o kind \o " body.")
         IN  IF ~paren.ok THEN paren
             ELSE IF ~brace.ok THEN brace
             ELSE function_body(name, params.val, block(brace.P))

\* one pass of the parameter loop of function: Again when a comma follows
parameters_pass(P, params) ==
    IF Len(params) >= 255
    THEN Parser_error(P, peek(P), "Cannot have more than 255 parameters.")
    ELSE LET param == consume(P, "IDENTIFIER", "Expect parameter name.")
         IN  IF ~param.ok THEN param
             ELSE IF match_(param.P, {"COMMA"})
             THEN Again(advance(param.P), Append(params, param.val.lexeme))
             ELSE Parsed(param.P, Append(params, param.val.lexeme))

\* the loop, as the loop of finish_call
parameters_again(r, k) ==
    IF IsAgain(r) THEN parameters_loop(r.P, r.val, k) ELSE r

parameters_loop(P, params, k) ==
    IF k = 0 THEN parameters_pass(P, params)
    ELSE parameters_again(parameters_loop(P, params, k - 1), k - 1)

parameters(r, k) ==
    IF IsAgain(r) THEN parameters(parameters_loop(r.P, r.val, k), k + 1) ELSE r

function(P, kind) ==
    LET name == consume(P, "IDENTIFIER", "Expect " \o kind \o " name.")
        paren == consume(name.P, "LEFT_PAREN", "Expect '(' after " \o kind \o " name.")
    IN  IF ~name.ok THEN name
        ELSE IF ~paren.ok THEN paren
        ELSE function_brace(kind, name.val,
                            IF ~check(paren.P, "RIGHT_PAREN")
                            THEN parameters(parameters_pass(paren.P, <<>>), 0)
                            ELSE Parsed(paren.P, <<>>))

methods_push(methods, method) ==
    IF method.ok THEN methods_loop(method.P, Append(methods, method.val)) ELSE method

methods_loop(P, methods) ==
    IF ~check(P, "RIGHT_BRACE") /\ ~is_at_end(P)
    THEN methods_push(methods, function(P, "method"))
    ELSE Parsed(P, methods)

class_end(name, methods) ==
    IF ~methods.ok THEN methods
    ELSE LET brace == consume(methods.P, "RIGHT_BRACE", "Expect '}' after class body.")
         IN  IF ~brace.ok THEN brace
             ELSE Parsed(brace.P, ClassS(name.lexeme, None, methods.val))

class_declaration(P) ==
    LET name == consume(P, "IDENTIFIER", "Expect class name.")
        brace == consume(name.P, "LEFT_BRACE", "Expect '{' before class body.")
    IN  IF ~name.ok THEN name
        ELSE IF ~brace.ok THEN brace
        ELSE class_end(name.val, methods_loop(brace.P, <<>>))

declaration_function(fun) ==
    IF fun.ok THEN Parsed(fun.P, FunctionS(fun.val)) ELSE fun

declaration(P) ==
    CASE match_(P, {"CLASS"}) -> class_declaration(advance(P))
      [] match_(P, {"FUN"}) -> declaration_function(function(advance(P), "function"))
      [] match_(P, {"VAR"}) -> variable(advance(P))
      [] OTHER -> statement(P)

parse_push(statements, stmt) ==
    IF stmt.ok THEN parse_loop(stmt.P, Append(statements, stmt.val)) ELSE stmt

parse_loop(P, statements) ==
    IF ~is_at_end(P) THEN parse_push(statements, declaration(P)) ELSE Parsed(P, statements)

Parser_parse(P) == parse_loop(P, <<>>)

(***************************************************************************)
(* The printer of the parse command (impl Display for Expression,          *)
(* grammar.rs).  The result is the text, and with it the slices the        *)
(* scanner cuts that text into.  The contents of a string literal are      *)
(* written without quotes; they are one slice, or none when empty.         *)
(***************************************************************************)
RECURSIVE Expression_fmt(_)
RECURSIVE Expression_join(_, _)

\* arguments.iter().map(to_string).join(", ") from the i-th argument on
Expression_join(arguments, i) ==
    IF i > Len(arguments) THEN [text |-> "", lexemes |-> <<>>]
    ELSE LET arg == Expression_fmt(arguments[i])
             rest == Expression_join(arguments, i + 1)
         IN  IF i = Len(arguments) THEN arg
             ELSE [text |-> arg.text \o ", " \o rest.text,
                   lexemes |-> arg.lexemes \o <<",">> \o rest.lexemes]

Expression_fmt(expr) ==
    CASE expr.k = "Assign" ->
            LET value == Expression_fmt(expr.value) IN
            [text |-> "(assign " \o expr.name \o " " \o value.text \o ")",
             lexemes |-> <<"(", "assign", expr.name>> \o value.lexemes \o <<")">>]
      [] expr.k \in {"Binary", "Logical"} ->
            LET left == Expression_fmt(expr.left)
                right == Expression_fmt(expr.right)
            IN  [text |-> "(" \o expr.op \o " " \o left.text \o " " \o right.text \o ")",
                 lexemes |-> <<"(", expr.op>> \o left.lexemes \o right.lexemes \o <<")">>]
      [] expr.k = "Call" ->
            LET callee == Expression_fmt(expr.callee)
                args == Expression_join(expr.arguments, 1)
            IN  [text |-> "(call " \o callee.text \o " " \o args.text \o ")",
                 lexemes |-> <<"(", "call">> \o callee.lexemes \o args.lexemes \o <<")">>]
      [] expr.k = "Grouping" ->
            LET g == Expression_fmt(expr.expr) IN
            [text |-> "(group " \o g.text \o ")",
             lexemes |-> <<"(", "group">> \o g.lexemes \o <<")">>]
      [] expr.k = "Literal" ->
            [text |-> Literal_fmt(expr.value),
             lexemes |-> IF Literal_fmt(expr.value) = "" THEN <<>>
                         ELSE <<Literal_fmt(expr.value)>>]
      [] expr.k = "Unary" ->
            LET right == Expression_fmt(expr.right) IN
            [text |-> "(" \o expr.op \o " " \o right.text \o ")",
             lexemes |-> <<"(", expr.op>> \o right.lexemes \o <<")">>]
      [] expr.k = "Variable" ->
            [text |-> "(var " \o expr.name \o ")",
             lexemes |-> <<"(", "var", expr.name, ")">>]

(***************************************************************************)
(* Programs.  An input names a family of Lox programs and its parameters:  *)
(* a and b are values, depth a nesting of blocks, n and m counts, variant  *)
(* a shape.  The AST is the one the parser hands to the resolver: the ids  *)
(* of Variable/Assign/This/Super nodes are distinct, numbered from 0.      *)
(***************************************************************************)
Values == {String("global"), String("block"), Number(1), Nil}

Input(f, a, b, depth, n, m, variant) ==
    [family |-> f, a |-> a, b |-> b, depth |-> depth, n |-> n, m |-> m,
     variant |-> variant]

\* statements wrapped in d nested blocks
RECURSIVE Nest(_, _)
Nest(statements, d) ==
    IF d = 0 THEN statements ELSE <<BlockS(Nest(statements, d - 1))>>

CallS(id, name, arguments) == ExpressionS(Call(Variable(id, name), arguments))

\* var a = A; { fun showA() { print a; } showA(); var a = B; showA(); }
ClosureInputs ==
    { Input("closure", a, b, d, 0, 0, v) :
        a \in Values, b \in Values, d \in 1..MaxDepth, v \in 0..1 }

ClosureProgram(in) ==
    LET read == PrintS(Variable(0, "a"))
        body == IF in.variant = 0 THEN <<read>> ELSE <<BlockS(<<read>>)>>
    IN  <<VariableS("a", Literal(in.a))>> \o
        Nest(<<FunctionS(Function("showA", <<>>, body)),
               CallS(1, "showA", <<>>),
               VariableS("a", Literal(in.b)),
               CallS(2, "showA", <<>>)>>, in.depth)

\* var x = A; { var x = B; print x; { print x; } } print x;
\* variant 1 puts all of it in a block, variant 2 in a function body
ShadowInputs ==
    { Input("shadow", a, b, d, 0, 0, v) :
        a \in Values, b \in Values, d \in 1..MaxDepth, v \in 0..2 }

ShadowProgram(in) ==
    LET core == <<VariableS("x", Literal(in.a)),
                  BlockS(<<VariableS("x", Literal(in.b)),
                           PrintS(Variable(0, "x"))>> \o
                         Nest(<<PrintS(Variable(1, "x"))>>, in.depth - 1)),
                  PrintS(Variable(2, "x"))>>
    IN  CASE in.variant = 0 -> core
          [] in.variant = 1 -> <<BlockS(core)>>
          [] in.variant = 2 -> <<FunctionS(Function("f", <<>>, core)),
                                 CallS(3, "f", <<>>)>>

\* var inc; var get;
\* fun make() { var c = 0; fun i() { c = c + 1; } fun g() { return c; }
\*              inc = i; get = g; }
\* make(); inc(); (n times) print get(); var inc1 = inc; var get1 = get;
\* make(); inc(); (m times) print get(); print get1(); inc1(); print get1();
\* print get();
SharedInputs ==
    { Input("shared", Nil, Nil, 0, n, m, 0) : n \in 0..MaxIter, m \in 0..MaxIter }

SharedProgram(in) ==
    LET i == Function("i", <<>>,
                <<ExpressionS(Assign(2, "c",
                    Binary(Variable(1, "c"), "+", Literal(Number(1)))))>>)
        g == Function("g", <<>>, <<ReturnS(Variable(3, "c"))>>)
        make == Function("make", <<>>,
                <<VariableS("c", Literal(Number(0))),
                  FunctionS(i), FunctionS(g),
                  ExpressionS(Assign(5, "inc", Variable(4, "i"))),
                  ExpressionS(Assign(7, "get", Variable(6, "g")))>>)
    IN  <<VariableS("inc", None), VariableS("get", None), FunctionS(make),
          CallS(8, "make", <<>>)>> \o
        [k \in 1..in.n |-> CallS(20 + k, "inc", <<>>)] \o
        <<PrintS(Call(Variable(9, "get"), <<>>)),
          VariableS("inc1", Variable(10, "inc")),
          VariableS("get1", Variable(11, "get")),
          CallS(12, "make", <<>>)>> \o
        [k \in 1..in.m |-> CallS(40 + k, "inc", <<>>)] \o
        <<PrintS(Call(Variable(13, "get"), <<>>)),
          PrintS(Call(Variable(14, "get1"), <<>>)),
          CallS(15, "inc1", <<>>),
          PrintS(Call(Variable(16, "get1"), <<>>)),
          PrintS(Call(Variable(17, "get"), <<>>))>>

\* fun f(k) { var i = 0;
\*            while (i < MaxIter) { {.. if (i == k) return V; ..} print i; i = i + 1; }
\*            print "end"; }
\* { var loc = "L"; print f(K); print loc; }
\* variant 0 is a bare return;  K = MaxIter never returns early
ReturnInputs ==
    { Input("return", a, Nil, d, n, 0, v) :
        a \in Values, d \in 0..MaxDepth, n \in 0..MaxIter, v \in 0..1 }

ReturnProgram(in) ==
    LET ret == ReturnS(IF in.variant = 0 THEN None ELSE Literal(in.a))
        test == IfS(Binary(Variable(1, "i"), "==", Variable(2, "k")), ret, None)
        loop == WhileS(Binary(Variable(0, "i"), "<", Literal(Number(MaxIter))),
                       BlockS(Nest(<<test>>, in.depth) \o
                              <<PrintS(Variable(3, "i")),
                                ExpressionS(Assign(5, "i",
                                    Binary(Variable(4, "i"), "+", Literal(Number(1)))))>>))
        f == Function("f", <<"k">>,
                <<VariableS("i", Literal(Number(0))), loop,
                  PrintS(Literal(String("end")))>>)
    IN  <<FunctionS(f),
          BlockS(<<VariableS("loc", Literal(String("L"))),
                   PrintS(Call(Variable(6, "f"), <<Literal(Number(in.n))>>)),
                   PrintS(Variable(7, "loc"))>>)>>

\* fun t(x) { print x; return 1; }
\* fun mk(x) { print x; fun body(p1, .., pn) { print "body"; return n; } return body; }
\* print t("l") OP t("r");  print t("1") - (t("2") * t("3"));
\* print mk("c")(t("a1"), .., t("an"));
Ops == <<"+", "-", "*", "<", "==">>

OrderInputs ==
    { Input("order", Nil, Nil, 0, n, m, 0) : n \in 0..MaxArgs, m \in 1..Len(Ops) }

ParamName(i) == "p" \o ToString(i)
ArgLabel(i) == "a" \o ToString(i)
T(id, label) == Call(Variable(id, "t"), <<Literal(String(label))>>)

OrderProgram(in) ==
    LET t == Function("t", <<"x">>,
                <<PrintS(Variable(0, "x")), ReturnS(Literal(Number(1)))>>)
        body == Function("body", [i \in 1..in.n |-> ParamName(i)],
                <<PrintS(Literal(String("body"))), ReturnS(Literal(Number(in.n)))>>)
        mk == Function("mk", <<"x">>,
                <<PrintS(Variable(1, "x")), FunctionS(body),
                  ReturnS(Variable(2, "body"))>>)
    IN  <<FunctionS(t), FunctionS(mk),
          PrintS(Binary(T(3, "l"), Ops[in.m], T(4, "r"))),
          PrintS(Binary(T(5, "1"), "-", Grouping(Binary(T(6, "2"), "*", T(7, "3"))))),
          PrintS(Call(Call(Variable(8, "mk"), <<Literal(String("c"))>>),
                      [i \in 1..in.n |-> T(10 + i, ArgLabel(i))]))>>

\* var g = "untouched";
\* class K { m(p1, .., pn) { this.f = 1; print "body"; g = "touched"; } }
\* fun f(p1, .., pn) { print "body"; g = "touched"; return 1; }
\* var o = K();
\* f(1, .., m);   (variant 1: print f(..);  2: var z = f(..);  3: o.m(..);)
\* print "next";
ArityInputs ==
    { Input("arity", Nil, Nil, 0, n, m, v) :
        n \in 0..MaxArgs, m \in 0..MaxArgs, v \in 0..3 }

ArityPrelude(in) ==
    LET params == [i \in 1..in.n |-> ParamName(i)]
        m == Function("m", params,
                <<ExpressionS(Set(This(0), "f", Literal(Number(1)))),
                  PrintS(Literal(String("body"))),
                  ExpressionS(Assign(1, "g", Literal(String("touched"))))>>)
        f == Function("f", params,
                <<PrintS(Literal(String("body"))),
                  ExpressionS(Assign(2, "g", Literal(String("touched")))),
                  ReturnS(Literal(Number(1)))>>)
    IN  <<VariableS("g", Literal(String("untouched"))),
          ClassS("K", None, <<m>>),
          FunctionS(f),
          VariableS("o", Call(Variable(3, "K"), <<>>))>>

\* the index of the statement that holds the call
ArityCallIndex == Len(ArityPrelude(Input("arity", Nil, Nil, 0, 0, 0, 0))) + 1

ArityProgram(in) ==
    LET args == [i \in 1..in.m |-> Literal(Number(i))]
        the_call == IF in.variant = 3
                    THEN Call(Get(Variable(4, "o"), "m"), args)
                    ELSE Call(Variable(5, "f"), args)
    IN  ArityPrelude(in) \o
        <<CASE in.variant = 1 -> PrintS(the_call)
            [] in.variant = 2 -> VariableS("z", the_call)
            [] OTHER -> ExpressionS(the_call),
          PrintS(Literal(String("next")))>>

\* class E {}
\* class K { init(p) { this.f = p; if (p == A) { return; } this.g = "late"; } }
\* var e = E(); var o = K(X); var o2 = K(X); var r = o.init(Y);
\* X is A for variant 0 and B for variant 1; Y is A for m = 0 and B for m = 1
InitArg(in, which) == IF which = 0 THEN in.a ELSE in.b

InitInputs ==
    { Input("init", a, b, 0, 0, m, v) :
        a \in Values, b \in Values, m \in 0..1, v \in 0..1 }

InitProgram(in) ==
    LET init == Function("init", <<"p">>,
                <<ExpressionS(Set(This(0), "f", Variable(1, "p"))),
                  IfS(Binary(Variable(2, "p"), "==", Literal(in.a)),
                      BlockS(<<ReturnS(None)>>), None),
                  ExpressionS(Set(This(3), "g", Literal(String("late"))))>>)
    IN  <<ClassS("E", None, <<>>),
          ClassS("K", None, <<init>>),
          VariableS("e", Call(Variable(4, "E"), <<>>)),
          VariableS("o", Call(Variable(5, "K"), <<Literal(InitArg(in, in.variant))>>)),
          VariableS("o2", Call(Variable(6, "K"), <<Literal(InitArg(in, in.variant))>>)),
          VariableS("r", Call(Get(Variable(7, "o"), "init"),
                              <<Literal(InitArg(in, in.m))>>))>>

\* class K { m(v) { this.f = v; } }
\* var o = K(); var p = o;
\* o.m(A);   (variant 1: p.m(A);  2: var bm = o.m; bm(A);)
\* print o.f; print p.f;
BindInputs == { Input("bind", a, Nil, 0, 0, 0, v) : a \in Values, v \in 0..2 }

BindProgram(in) ==
    LET m == Function("m", <<"v">>,
                <<ExpressionS(Set(This(0), "f", Variable(1, "v")))>>)
        arg == <<Literal(in.a)>>
    IN  <<ClassS("K", None, <<m>>),
          VariableS("o", Call(Variable(2, "K"), <<>>)),
          VariableS("p", Variable(3, "o"))>> \o
        ( CASE in.variant = 0 ->
                <<ExpressionS(Call(Get(Variable(4, "o"), "m"), arg))>>
            [] in.variant = 1 ->
                <<ExpressionS(Call(Get(Variable(4, "p"), "m"), arg))>>
            [] in.variant = 2 ->
                <<VariableS("bm", Get(Variable(4, "o"), "m")),
                  ExpressionS(Call(Variable(5, "bm"), arg))>> ) \o
        <<PrintS(Get(Variable(6, "o"), "f")),
          PrintS(Get(Variable(7, "p"), "f"))>>

\* class A { m() { return "A.m"; } z() { return this.tag; } }
\* class B < A { m() { return "B.m"; } }
\* class C < B {}
\* var o = A();  (n = 2: B();  n = 3: C();)
\* o.m = "field";   (variant 1 only)
\* var got = o.NAME;   NAME is m, z, q for m = 1, 2, 3
LookupClasses == <<"A", "B", "C">>
LookupNames == <<"m", "z", "q">>

LookupInputs ==
    { Input("lookup", Nil, Nil, 0, n, m, v) :
        n \in 1..Len(LookupClasses), m \in 1..Len(LookupNames), v \in 0..1 }

LookupMethod(class, name) ==
    Function(name, <<>>,
        IF name = "z" THEN <<ReturnS(Get(This(0), "tag"))>>
        ELSE <<ReturnS(Literal(String(class \o "." \o name)))>>)

LookupProgram(in) ==
    <<ClassS("A", None, <<LookupMethod("A", "m"), LookupMethod("A", "z")>>),
      ClassS("B", Variable(1, "A"), <<LookupMethod("B", "m")>>),
      ClassS("C", Variable(2, "B"), <<>>),
      VariableS("o", Call(Variable(3, LookupClasses[in.n]), <<>>))>> \o
    ( IF in.variant = 1
      THEN <<ExpressionS(Set(Variable(4, "o"), "m", Literal(String("field"))))>>
      ELSE <<>> ) \o
    <<VariableS("got", Get(Variable(5, "o"), LookupNames[in.m]))>>

\* class Z { method() { print "Z method"; print this.tag; } }
\* class A < Z { method() { print "A method"; print this.tag; } }
\*                                    (variant 3: class A < Z {})
\* class B < A { method() { print "B method"; } test() { super.method(); }
\*               miss() { super.nothing(); } }
\* class C < B {}
\* var o = B();  (variant 1: C();)   o.tag = "T";
\* o.test();     (variant 2: o.miss();)
SuperInputs == { Input("super", Nil, Nil, 0, 0, 0, v) : v \in 0..3 }

SuperMethod(class, id) ==
    Function("method", <<>>,
        <<PrintS(Literal(String(class \o " method"))),
          PrintS(Get(This(id), "tag"))>>)

SuperProgram(in) ==
    LET test == Function("test", <<>>,
                    <<ExpressionS(Call(Super(2, "method"), <<>>))>>)
        miss == Function("miss", <<>>,
                    <<ExpressionS(Call(Super(3, "nothing"), <<>>))>>)
        b == Function("method", <<>>, <<PrintS(Literal(String("B method")))>>)
    IN  <<ClassS("Z", None, <<SuperMethod("Z", 0)>>),
          ClassS("A", Variable(4, "Z"),
                 IF in.variant = 3 THEN <<>> ELSE <<SuperMethod("A", 1)>>),
          ClassS("B", Variable(5, "A"), <<b, test, miss>>),
          ClassS("C", Variable(6, "B"), <<>>),
          VariableS("o", Call(Variable(7, IF in.variant = 1 THEN "C" ELSE "B"), <<>>)),
          ExpressionS(Set(Variable(8, "o"), "tag", Literal(String("T")))),
          ExpressionS(Call(Get(Variable(9, "o"),
                               IF in.variant = 2 THEN "miss" ELSE "test"), <<>>))>>

\* fun l(x) { print "l"; return x; }  fun r(x) { print "r"; return x; }
\* var got = l(A) or r(B);     (variant 1: and)
LogicValues ==
    {Nil, Boolean(FALSE), Boolean(TRUE), Number(0), Number(2), String(""), String("x")}

LogicalInputs ==
    { Input("logical", a, b, 0, 0, 0, v) : a \in LogicValues, b \in LogicValues, v \in 0..1 }

Echo(name, label) ==
    Function(name, <<"x">>, <<PrintS(Literal(String(label))), ReturnS(Variable(0, "x"))>>)

LogicalProgram(in) ==
    <<FunctionS(Echo("l", "l")), FunctionS(Echo("r", "r")),
      VariableS("got",
          Logical(Call(Variable(1, "l"), <<Literal(in.a)>>),
                  IF in.variant = 0 THEN "or" ELSE "and",
                  Call(Variable(2, "r"), <<Literal(in.b)>>)))>>

\* operands of every variant: the literals, then values a program must make
\* fun f() {}  fun g() {}  class K {}  var i = K();  var j = K();
OperandValues ==
    <<Nil, Boolean(FALSE), Boolean(TRUE), Number(0), Number(1), String(""), String("a")>>
OperandNames == <<"f", "g", "K", "i", "j">>

Operand(k, id) ==
    IF k <= Len(OperandValues)
    THEN Literal(OperandValues[k])
    ELSE Variable(id, OperandNames[k - Len(OperandValues)])

OperandPrelude ==
    <<FunctionS(Function("f", <<>>, <<>>)), FunctionS(Function("g", <<>>, <<>>)),
      ClassS("K", None, <<>>),
      VariableS("i", Call(Variable(1, "K"), <<>>)),
      VariableS("j", Call(Variable(2, "K"), <<>>))>>

\* variant 0, the library: var got = !X; if (X) print "then"; else print "else";
\*   fun w() { while (X) { return "loop"; } return "skip"; }  print w();
\* variant 1, the evaluate command of the binary: !X
TruthyInputs ==
    { Input("truthy", Nil, Nil, 0, n, 0, 0) :
        n \in 1..(Len(OperandValues) + Len(OperandNames)) }
      \cup { Input("truthy", Nil, Nil, 0, n, 0, 1) : n \in 1..Len(OperandValues) }

TruthyProgram(in) ==
    OperandPrelude \o
    <<VariableS("got", Unary("!", Operand(in.n, 3))),
      IfS(Operand(in.n, 4), PrintS(Literal(String("then"))), PrintS(Literal(String("else")))),
      FunctionS(Function("w", <<>>,
          <<WhileS(Operand(in.n, 5), BlockS(<<ReturnS(Literal(String("loop")))>>)),
            ReturnS(Literal(String("skip")))>>)),
      PrintS(Call(Variable(6, "w"), <<>>))>>

\* variant 0, the library: var eq = X == Y; var ne = X != Y;
\* variant 1, the evaluate command of the binary: X == Y  (depth 1: X != Y)
EqualityInputs ==
    { Input("equality", Nil, Nil, 0, n, m, 0) :
        n \in 1..(Len(OperandValues) + Len(OperandNames)),
        m \in 1..(Len(OperandValues) + Len(OperandNames)) }
      \cup { Input("equality", Nil, Nil, d, n, m, 1) :
                d \in 0..1, n \in 1..Len(OperandValues), m \in 1..Len(OperandValues) }

EqualityProgram(in) ==
    OperandPrelude \o
    <<VariableS("eq", Binary(Operand(in.n, 3), "==", Operand(in.m, 4))),
      VariableS("ne", Binary(Operand(in.n, 5), "!=", Operand(in.m, 6)))>>

\* var trace = "";
\* fun l(x) { trace = trace + "l"; return x; }  fun r(x) { trace = trace + "r"; return x; }
\* print l(A) + r(B);
PlusValues == {Number(1), String("a"), Nil, Boolean(TRUE)}

PlusInputs == { Input("plus", a, b, 0, 0, 0, 0) : a \in PlusValues, b \in PlusValues }

Tracer(name, id) ==
    Function(name, <<"x">>,
        <<ExpressionS(Assign(id, "trace",
              Binary(Variable(id + 1, "trace"), "+", Literal(String(name))))),
          ReturnS(Variable(id + 2, "x"))>>)

PlusProgram(in) ==
    <<VariableS("trace", Literal(String(""))),
      FunctionS(Tracer("l", 0)), FunctionS(Tracer("r", 3)),
      PrintS(Binary(Call(Variable(6, "l"), <<Literal(in.a)>>), "+",
                    Call(Variable(7, "r"), <<Literal(in.b)>>)))>>

\* the operands that are not instances
NonInstances ==
    { k \in 1..(Len(OperandValues) + Len(OperandNames)) :
        k > Len(OperandValues) => OperandNames[k - Len(OperandValues)] \notin {"i", "j"} }

\* var trace = "";  fun v(x) { trace = trace + "v"; return x; }
\* print X.p;     (variant 1: X.p = v(1);)
AccessInputs ==
    { Input("access", Nil, Nil, 0, n, 0, v) : n \in NonInstances, v \in 0..1 }

AccessProgram(in) ==
    OperandPrelude \o
    <<VariableS("trace", Literal(String(""))),
      FunctionS(Tracer("v", 3)),
      IF in.variant = 0
      THEN PrintS(Get(Operand(in.n, 6), "p"))
      ELSE ExpressionS(Set(Operand(in.n, 6), "p",
                           Call(Variable(7, "v"), <<Literal(Number(1))>>)))>>

\* a return statement, bare (m = 0) or with a value, inside depth blocks, at
\* the place the variant names:
\*   0  top level                     1  top level, after fun f() {}
\*   2  fun f() { .. }                3  fun init() { .. }
\*   4  class K { m() { .. } }        5  class K { init() { .. } }
\*   6  class K { init() { fun g() { .. } } }
\*   7  class K { init() { fun g() {} .. } }
ReturnCheckInputs ==
    { Input("retcheck", Nil, Nil, d, 0, m, v) :
        d \in 0..MaxDepth, m \in 0..1, v \in 0..7 }

ReturnCheckProgram(in) ==
    LET ret == Nest(<<ReturnS(IF in.m = 0 THEN None ELSE Literal(Number(1)))>>, in.depth)
        empty == FunctionS(Function("g", <<>>, <<>>))
    IN  CASE in.variant = 0 -> ret
          [] in.variant = 1 -> <<FunctionS(Function("f", <<>>, <<>>))>> \o ret
          [] in.variant = 2 -> <<FunctionS(Function("f", <<>>, ret))>>
          [] in.variant = 3 -> <<FunctionS(Function("init", <<>>, ret))>>
          [] in.variant = 4 -> <<ClassS("K", None, <<Function("m", <<>>, ret)>>)>>
          [] in.variant = 5 -> <<ClassS("K", None, <<Function("init", <<>>, ret)>>)>>
          [] in.variant = 6 ->
                <<ClassS("K", None,
                    <<Function("init", <<>>, <<FunctionS(Function("g", <<>>, ret))>>)>>)>>
          [] in.variant = 7 ->
                <<ClassS("K", None, <<Function("init", <<>>, <<empty>> \o ret)>>)>>

\* the statement print this; (variants 0..4) or super.m; (5..10), inside
\* depth blocks, at the place the variant names:
\*   0, 5  top level                  1  fun f() { .. }
\*   2, 6  class K { m() { .. } }     3  class K { m() { fun g() { .. } } }
\*   4     top level, after class K { m() {} }
\*   7     class A {} class B < A { m() { .. } }
\*   8     class A {} class B < A { m() { class C { n() { .. } } } }
\*   9     top level, after class A {} class B < A { m() {} }
\*   10    class A {} class B < A { m() { class C { n() {} } .. } }
ClassCheckInputs ==
    { Input("classcheck", Nil, Nil, d, 0, 0, v) : d \in 0..MaxDepth, v \in 0..10 }

ClassCheckProgram(in) ==
    LET use == Nest(<<IF in.variant <= 4
                      THEN PrintS(This(0))
                      ELSE ExpressionS(Super(0, "m"))>>, in.depth)
        A == ClassS("A", None, <<>>)
        B(body) == ClassS("B", Variable(1, "A"), <<Function("m", <<>>, body)>>)
        K(body) == ClassS("K", None, <<Function("m", <<>>, body)>>)
        C(body) == ClassS("C", None, <<Function("n", <<>>, body)>>)
    IN  CASE in.variant \in {0, 5} -> use
          [] in.variant = 1 -> <<FunctionS(Function("f", <<>>, use))>>
          [] in.variant \in {2, 6} -> <<K(use)>>
          [] in.variant = 3 -> <<K(<<FunctionS(Function("g", <<>>, use))>>)>>
          [] in.variant = 4 -> <<K(<<>>)>> \o use
          [] in.variant = 7 -> <<A, B(use)>>
          [] in.variant = 8 -> <<A, B(<<C(use)>>)>>
          [] in.variant = 9 -> <<A, B(<<>>)>> \o use
          [] in.variant = 10 -> <<A, B(<<C(<<>>)>> \o use)>>

\* class A {}  var S = V;
\* { .. { class B < SUP { m() {} init() {} }  var after = 1; } .. }
\* inside depth blocks; SUP is missing (variant 0), A (1), or S (2..4) with V
\* a literal (2), clock (3) or A() (4)
InheritValues == {Nil, Boolean(TRUE), Number(0), String("A")}

InheritInputs ==
    { Input("inherit", Nil, Nil, d, 0, 0, v) : d \in 0..MaxDepth, v \in {0, 1, 3, 4} }
      \cup { Input("inherit", a, Nil, d, 0, 0, 2) : d \in 0..MaxDepth, a \in InheritValues }

InheritProgram(in) ==
    LET V == CASE in.variant = 3 -> Variable(2, "clock")
               [] in.variant = 4 -> Call(Variable(1, "A"), <<>>)
               [] OTHER -> Literal(in.a)
        SUP == CASE in.variant = 0 -> None
                 [] in.variant = 1 -> Variable(3, "A")
                 [] OTHER -> Variable(4, "S")
    IN  <<ClassS("A", None, <<>>), VariableS("S", V)>>
          \o Nest(<<ClassS("B", SUP, <<Function("m", <<>>, <<>>),
                                       Function("init", <<>>, <<>>)>>),
                    VariableS("after", Literal(Number(1)))>>, in.depth)

\* inside depth blocks (depth 0: global scope):
\*   0  var a = a = 1; print a;
\*   1  var a = 1; { var a = a = 2; print a; } print a;
\*   2  var a = 1; a = 2; print a;
\*   3  var a = (a = 1) + nil; print a;
OwnInputs ==
    { Input("own", Nil, Nil, d, 0, 0, v) : d \in 0..MaxDepth, v \in 0..3 }

OwnProgram(in) ==
    LET one == Literal(Number(1))
        two == Literal(Number(2))
        show(id) == PrintS(Variable(id, "a"))
    IN  Nest(CASE in.variant = 0 ->
                    <<VariableS("a", Assign(1, "a", one)), show(2)>>
               [] in.variant = 1 ->
                    <<VariableS("a", one),
                      BlockS(<<VariableS("a", Assign(1, "a", two)), show(2)>>),
                      show(3)>>
               [] in.variant = 2 ->
                    <<VariableS("a", one), ExpressionS(Assign(1, "a", two)), show(2)>>
               [] in.variant = 3 ->
                    <<VariableS("a", Binary(Assign(1, "a", one), "+", Literal(Nil))),
                      show(2)>>,
             in.depth)

\* var x = 0; class A {}
\* class B < A { m(p) { var l = p; l; this; super.m; x; } }
\* inside depth blocks; variant 0 has no < A and no super.m
MethodInputs ==
    { Input("method", Nil, Nil, d, 0, 0, v) : d \in 0..MaxDepth, v \in 0..1 }

MethodProgram(in) ==
    LET body == <<VariableS("l", Variable(1, "p")),
                  ExpressionS(Variable(2, "l")),
                  ExpressionS(This(3))>>
                 \o (IF in.variant = 1 THEN <<ExpressionS(Super(4, "m"))>> ELSE <<>>)
                 \o <<ExpressionS(Variable(5, "x"))>>
    IN  Nest(<<VariableS("x", Literal(Number(0))),
               ClassS("A", None, <<>>),
               ClassS("B", IF in.variant = 1 THEN Variable(6, "A") ELSE None,
                      <<Function("m", <<"p">>, body)>>)>>,
             in.depth)

\* declarations of one name, inside depth blocks (depth 0: global scope):
\*   0  D1 a; D2 a;   D1, D2 each var a; / fun a() {} / class a {}  (by n, m)
\*   1  fun f(p, p) {}
\*   2  var a = a;
\*   3  var a = 1; { var a = a; }
\*   4  var a = 1; print a; var b = a;
DeclareInputs ==
    { Input("declare", Nil, Nil, d, n, m, 0) : d \in 0..MaxDepth, n \in 0..2, m \in 0..2 }
      \cup { Input("declare", Nil, Nil, d, 0, 0, v) : d \in 0..MaxDepth, v \in 1..4 }

Declaration(kind, name) ==
    CASE kind = 0 -> VariableS(name, None)
      [] kind = 1 -> FunctionS(Function(name, <<>>, <<>>))
      [] kind = 2 -> ClassS(name, None, <<>>)

DeclareProgram(in) ==
    Nest(CASE in.variant = 0 -> <<Declaration(in.n, "a"), Declaration(in.m, "a")>>
           [] in.variant = 1 -> <<FunctionS(Function("f", <<"p", "p">>, <<>>))>>
           [] in.variant = 2 -> <<VariableS("a", Variable(0, "a"))>>
           [] in.variant = 3 ->
                 <<VariableS("a", Literal(Number(1))),
                   BlockS(<<VariableS("a", Variable(0, "a"))>>)>>
           [] in.variant = 4 ->
                 <<VariableS("a", Literal(Number(1))), PrintS(Variable(0, "a")),
                   VariableS("b", Variable(1, "a"))>>,
         in.depth)

\* the inputs handed to the evaluate command of the binary, and the
\* expression its parser gives
\* Programs given as source text, for the scanner and the parser.
\*
\* class K { } var a = K ( ) ; var b = 0 ; var c = 0 ;
\* LEFT = VALUE ;
\* print b ;
\* LEFT is chosen by variant; the value starts on the line of the `=`
\* (depth 0) or on the next line (depth 1) and is `1` (m = 0) or `1 +`,
\* line break, `2` (m = 1)
AssignLefts ==
    <<  <<"b">>, <<"a", ".", "x">>, <<"b", "=", "c">>, <<"a", ".", "x", "=", "b">>,
        <<"1">>, <<"(", "b", ")">>, <<"K", "(", ")">>, <<"b", "+", "1">>,
        <<"this">>, <<"!", "b">>, <<"b", "or", "c">>, <<"nil">>  >>

AssignInputs ==
    { Input("assign", Nil, Nil, d, 0, m, v) :
        d \in 0..1, m \in 0..1, v \in 1..Len(AssignLefts) }

AssignSource(in) ==
    LET left == AssignLefts[in.variant] \o <<"=">>
        value == IF in.m = 0 THEN << <<"1", ";">> >> ELSE << <<"1", "+">>, <<"2", ";">> >>
    IN  << <<"class", "K", "{", "}", "var", "a", "=", "K", "(", ")", ";",
             "var", "b", "=", "0", ";", "var", "c", "=", "0", ";">> >>
        \o (IF in.depth = 0
            THEN <<left \o value[1]>> \o SubSeq(value, 2, Len(value))
            ELSE <<left>> \o value)
        \o << <<"print", "b", ";">> >>

\* var i = 0 ;
\* fun f ( ) {
\* for ( INIT COND ; INCR ) { print i ; }
\* print i ; }
\* f ( ) ; print i ;
\* INIT is `;` (variant 0), `var i = 0 ;` (1), `i = 0 ;` (2) or `print 7 ;`
\* (3); COND is `i < n`, or with depth 1 it is missing and the body starts
\* with `if ( i >= n ) return ;`; INCR is `i = i + 1`, or with m = 1 it is
\* missing and the body ends with `i = i + 1 ;`
ForInits ==
    <<  <<";">>, <<"var", "i", "=", "0", ";">>, <<"i", "=", "0", ";">>,
        <<"print", "7", ";">>  >>

ForInputs ==
    { Input("for", Nil, Nil, d, n, m, v) :
        d \in 0..1, n \in 0..MaxIter, m \in 0..1, v \in 0..(Len(ForInits) - 1) }

ForSource(in) ==
    LET step == <<"i", "=", "i", "+", "1">> IN
    <<  <<"var", "i", "=", "0", ";">>,
        <<"fun", "f", "(", ")", "{">>,
        <<"for", "(">> \o ForInits[in.variant + 1]
            \o (IF in.depth = 0 THEN <<"i", "<", Digits[in.n + 1]>> ELSE <<>>)
            \o <<";">>
            \o (IF in.m = 0 THEN step ELSE <<>>)
            \o <<")", "{">>
            \o (IF in.depth = 0 THEN <<>>
                ELSE <<"if", "(", "i", ">=", Digits[in.n + 1], ")", "return", ";">>)
            \o <<"print", "i", ";">>
            \o (IF in.m = 0 THEN <<>> ELSE step \o <<";">>)
            \o <<"}">>,
        <<"print", "i", ";", "}">>,
        <<"f", "(", ")", ";", "print", "i", ";">>  >>

\* fun g ( ) { f ( 1 , .. , 1 ) ; }        (variant 0, n arguments)
\* fun h ( p1 , .. , pn ) { }              (variant 1, n parameters)
\* print 2 ;
\* n is small, or the largest count the parser accepts, or one more
CapCounts == (0..MaxArgs) \cup {255, 256}

CapInputs == { Input("cap", Nil, Nil, 0, n, 0, v) : n \in CapCounts, v \in 0..1 }

\* item(1) , item(2) , .. , item(n)
Commas(item(_), n) ==
    IF n = 0 THEN <<>>
    ELSE [i \in 1..(2 * n - 1) |-> IF i % 2 = 1 THEN item((i + 1) \div 2) ELSE ","]

CapArgument(i) == "1"

CapSource(in) ==
    <<  IF in.variant = 0
        THEN <<"fun", "g", "(", ")", "{", "f", "(">> \o Commas(CapArgument, in.n)
                 \o <<")", ";", "}">>
        ELSE <<"fun", "h", "(">> \o Commas(ParamName, in.n) \o <<")", "{", "}">>,
        <<"print", "2", ";">>  >>

\* fun g ( ) { EXPRESSION ; }
\* EXPRESSION, with the operators op1 = PrecOps[n] and op2 = PrecOps[m]:
\*   variant 0:  a op1 b op2 c
\*   variant 1:  ! - a op1 b
\*   variant 2:  a op1 - b op2 c
\*   variant 3:  a = b = c op1 d
\*   variant 4:  - a . x op1 b ( )
\*   variant 5:  a op1 ( b op2 c )
PrecOps == <<"or", "and", "==", "!=", "<", "<=", ">", ">=", "-", "+", "/", "*">>

PrecInputs ==
    { Input("prec", Nil, Nil, 0, n, m, v) :
        n \in 1..Len(PrecOps), m \in 1..Len(PrecOps), v \in {0, 2, 5} }
    \cup { Input("prec", Nil, Nil, 0, n, 1, v) : n \in 1..Len(PrecOps), v \in {1, 3, 4} }

PrecExpression(in) ==
    LET op1 == PrecOps[in.n]
        op2 == PrecOps[in.m]
    IN  CASE in.variant = 0 -> <<"a", op1, "b", op2, "c">>
          [] in.variant = 1 -> <<"!", "-", "a", op1, "b">>
          [] in.variant = 2 -> <<"a", op1, "-", "b", op2, "c">>
          [] in.variant = 3 -> <<"a", "=", "b", "=", "c", op1, "d">>
          [] in.variant = 4 -> <<"-", "a", ".", "x", op1, "b", "(", ")">>
          [] in.variant = 5 -> <<"a", op1, "(", "b", op2, "c", ")">>

PrecSource(in) ==
    << <<"fun", "g", "(", ")", "{">> \o PrecExpression(in) \o <<";", "}">> >>

\* The expressions given to the parse command, one line each.
PrintSources ==
    <<  <<"1">>, <<"true">>, <<"false">>, <<"nil">>, <<Quoted("s")>>, <<Quoted("nil")>>,
        <<Quoted("1")>>, <<"(", "1", ")">>, <<"(", "(", "nil", ")", ")">>, <<"-", "1">>,
        <<"!", "true">>, <<"1", "+", "2">>, <<"1", "<", "2", "*", "3">>,
        <<"true", "or", "false">>, <<"a">>, <<"a", "=", "1">>, <<"f", "(", ")">>,
        <<"f", "(", "1", ",", "a", ")">>, <<"group", "(", "1", ")">>  >>

PrintInputs == { Input("print", Nil, Nil, 0, 0, 0, v) : v \in 1..Len(PrintSources) }

\* token sequences: one of the prefixes, then up to three lexemes, chosen
\* by depth, n and m (0: none, and none after it)
TokenLexemes == <<"{", "}", "(", ")", "a", "=", "+", ";", ",", ".", "or">>

TokenPrefixes == << <<>>, <<"class", "a", "{">>, <<"fun", "a", "(">>, <<"a", "(">> >>

TokenInputs ==
    { Input("tokens", Nil, Nil, d, n, m, v) :
        d \in 0..Len(TokenLexemes), n \in 0..Len(TokenLexemes),
        m \in 0..Len(TokenLexemes), v \in 0..(Len(TokenPrefixes) - 1) }
      \ { in \in [family : {"tokens"}, a : {Nil}, b : {Nil},
                  depth : 0..Len(TokenLexemes), n : 0..Len(TokenLexemes),
                  m : 0..Len(TokenLexemes), variant : 0..(Len(TokenPrefixes) - 1)] :
            (in.depth = 0 /\ in.n # 0) \/ (in.n = 0 /\ in.m # 0) }

TokenLexeme(i) == IF i = 0 THEN <<>> ELSE <<TokenLexemes[i]>>

TokenSource(in) ==
    << TokenPrefixes[in.variant + 1]
         \o TokenLexeme(in.depth) \o TokenLexeme(in.n) \o TokenLexeme(in.m) >>

IsSource(in) == in.family \in {"assign", "for", "cap", "prec", "tokens"}

Source(in) ==
    CASE in.family = "assign" -> AssignSource(in)
      [] in.family = "for" -> ForSource(in)
      [] in.family = "cap" -> CapSource(in)
      [] in.family = "prec" -> PrecSource(in)
      [] in.family = "print" -> <<PrintSources[in.variant]>>
      [] in.family = "tokens" -> TokenSource(in)

IsCommand(in) == in.family \in {"truthy", "equality"} /\ in.variant = 1

CommandExpression(in) ==
    CASE in.family = "truthy" -> Unary("!", Operand(in.n, 0))
      [] in.family = "equality" ->
            Binary(Operand(in.n, 0), IF in.depth = 0 THEN "==" ELSE "!=", Operand(in.m, 0))

Inputs ==
    ClosureInputs \cup ShadowInputs \cup SharedInputs \cup ReturnInputs
      \cup OrderInputs \cup ArityInputs \cup InitInputs \cup BindInputs
      \cup LookupInputs \cup SuperInputs \cup LogicalInputs
      \cup TruthyInputs \cup EqualityInputs \cup PlusInputs
      \cup AccessInputs \cup ReturnCheckInputs
      \cup ClassCheckInputs \cup DeclareInputs \cup InheritInputs
      \cup OwnInputs \cup MethodInputs \cup TokenInputs
      \cup AssignInputs \cup ForInputs \cup CapInputs \cup PrecInputs
      \cup PrintInputs

Program(in) ==
    CASE in.family = "closure" -> ClosureProgram(in)
      [] in.family = "shadow" -> ShadowProgram(in)
      [] in.family = "shared" -> SharedProgram(in)
      [] in.family = "return" -> ReturnProgram(in)
      [] in.family = "order" -> OrderProgram(in)
      [] in.family = "arity" -> ArityProgram(in)
      [] in.family = "init" -> InitProgram(in)
      [] in.family = "bind" -> BindProgram(in)
      [] in.family = "lookup" -> LookupProgram(in)
      [] in.family = "super" -> SuperProgram(in)
      [] in.family = "logical" -> LogicalProgram(in)
      [] in.family = "truthy" -> TruthyProgram(in)
      [] in.family = "equality" -> EqualityProgram(in)
      [] in.family = "plus" -> PlusProgram(in)
      [] in.family = "access" -> AccessProgram(in)
      [] in.family = "retcheck" -> ReturnCheckProgram(in)
      [] in.family = "classcheck" -> ClassCheckProgram(in)
      [] in.family = "declare" -> DeclareProgram(in)
      [] in.family = "inherit" -> InheritProgram(in)
      [] in.family = "own" -> OwnProgram(in)
      [] in.family = "method" -> MethodProgram(in)

(***************************************************************************)
(* The pipeline: the resolver runs over the whole program, then interpret  *)
(* executes the top-level statements one by one.                           *)
(***************************************************************************)
VARIABLES input, phase, pc, interp, error, parsed

vars == <<input, phase, pc, interp, error, parsed>>

\* the statements handed to the resolver and to interpret: the result of
\* the parser for a program given as source text
statements == IF IsSource(input) THEN parsed.val ELSE Program(input)

Init ==
    /\ input \in Inputs
    /\ phase = IF IsCommand(input) THEN "command"
               ELSE IF input.family = "print" THEN "expression"
               ELSE IF IsSource(input) THEN "source" ELSE "parsed"
    /\ pc = 1
    /\ interp = Interpreter_new
    /\ error = ""
    /\ parsed = Parsed(Parser_new(<<>>), <<>>)

\* Scanner::scan_tokens, then Parser::parse: the first ParserError ends the
\* run
Parse ==
    /\ phase = "source"
    /\ \E r \in {Parser_parse(Parser_new(scan_tokens(Source(input))))} :
        /\ parsed' = r
        /\ phase' = IF r.ok THEN "parsed" ELSE "error"
        /\ error' = r.err.message
    /\ UNCHANGED <<input, pc, interp>>

\* Resolver::new(&mut interpreter).resolve(&statements)
Resolve ==
    /\ phase = "parsed"
    /\ LET R == resolve(Resolver_new(interp.locals), statements, 1) IN
        /\ interp' = [interp EXCEPT !.locals = R.locals]
        /\ phase' = IF R.ok THEN "running" ELSE "rejected"
        /\ error' = R.err
    /\ UNCHANGED <<input, pc, parsed>>

\* one iteration of the loop of Interpreter::interpret, the system clock
\* reading t
Interpret ==
    /\ phase = "running"
    /\ pc <= Len(statements)
    /\ \E t \in 0..MaxClock :
       \E r \in {execute([interp EXCEPT !.now = t], statements[pc])} :
        /\ interp' = [r.I EXCEPT !.now = 0]
        /\ phase' = IF ~r.ok THEN "error" ELSE IF r.brk THEN "done" ELSE "running"
        /\ error' = r.err
        /\ pc' = IF r.ok /\ ~r.brk THEN pc + 1 ELSE pc
    /\ UNCHANGED <<input, parsed>>

\* the loop of Interpreter::interpret ends: Ok(Nil)
Finish ==
    /\ phase = "running"
    /\ pc > Len(statements)
    /\ phase' = "done"
    /\ UNCHANGED <<input, pc, interp, error, parsed>>

\* the evaluate command of the binary (main.rs): the value is printed, a
\* number without the .0 of Display; an Err is reported and the exit is 70
Evaluate ==
    /\ phase = "command"
    /\ \E r \in {interpret_evaluate(CommandExpression(input))} :
        /\ interp' = IF r.ok
                     THEN [interp EXCEPT !.out =
                             Append(@, IF IsNumber(r.val) /\ r.val.s = ""
                                       THEN ToString(r.val.n)
                                       ELSE Literal_fmt(r.val))]
                     ELSE interp
        /\ phase' = IF r.ok THEN "done" ELSE "error"
        /\ error' = r.err
    /\ UNCHANGED <<input, pc, parsed>>

\* the parse command of the binary (main.rs): the expression is parsed
\* and printed
ParseExpression ==
    /\ phase = "expression"
    /\ \E r \in {expression(Parser_new(scan_tokens(Source(input))))} :
        /\ parsed' = r
        /\ interp' = IF r.ok
                     THEN [interp EXCEPT !.out = Append(@, Expression_fmt(r.val).text)]
                     ELSE interp
        /\ phase' = IF r.ok THEN "done" ELSE "error"
        /\ error' = r.err.message
    /\ UNCHANGED <<input, pc>>

Next == Parse \/ Resolve \/ Interpret \/ Finish \/ Evaluate \/ ParseExpression

Spec == Init /\ [][Next]_vars

(***************************************************************************)
(* Claims.                                                                 *)
(***************************************************************************)
Failed == phase \in {"error", "rejected"}

Str(v) == stringify(interp, v)

\* the frames whose own map contains name
FramesWith(name) == { e \in 1..Len(interp.envs) : Has(interp.envs[e].values, name) }

\* C1: a function declared in a block whose body reads a name bound, at the
\* declaration, only in the global scope reads the global binding on every
\* call, also after a local of that name is declared later in the block:
\* every line printed is the global value, two lines in all, and no error.
C1_ClosureReadsGlobal ==
    input.family = "closure" =>
        /\ ~Failed
        /\ \A i \in 1..Len(interp.out) : interp.out[i] = Str(input.a)
        /\ phase = "done" => Len(interp.out) = 2

C1_Witness ==
    /\ input.family = "closure" /\ phase = "done" /\ input.a # input.b
    /\ \E e \in FramesWith("a") : e # 1 /\ interp.envs[e].values["a"] = input.b
    /\ interp.out = <<Str(input.a), Str(input.a)>>

\* C7: in var x = A; { var x = B; ... } ... with A # B every read of x in
\* the block after the inner declaration yields B, every read after the
\* block yields A, and the inner var defines x in the block's own frame
\* only: the enclosing frame still binds x to A.
C7_Shadowing ==
    (input.family = "shadow" /\ input.a # input.b) =>
        /\ ~Failed
        /\ phase = "done" =>
            /\ interp.out = <<Str(input.b), Str(input.b), Str(input.a)>>
            /\ Cardinality(FramesWith("x")) = 2
            /\ \E e \in FramesWith("x") :
                /\ interp.envs[e].values["x"] = input.b
                /\ interp.envs[e].parent \in FramesWith("x")
                /\ interp.envs[interp.envs[e].parent].values["x"] = input.a

C7_Witness ==
    /\ input.family = "shadow" /\ input.a # input.b /\ phase = "done"
    /\ input.variant = 2 /\ input.depth = MaxDepth
    /\ interp.out = <<Str(input.b), Str(input.b), Str(input.a)>>

Global(name) == interp.envs[interp.globals].values[name]

\* the numerals 0 .. k-1, the lines print i writes in k iterations
Numerals(k) == [i \in 1..k |-> ToString(i - 1)]

\* C2: a method read from an instance is bound to that instance, not to a
\* copy: after o.m(v), whose body runs this.f = v, o.f is v through every
\* reference to o (the program prints v twice and does not fail).
C2_MethodBoundToInstance ==
    input.family = "bind" =>
        /\ ~Failed
        /\ phase = "done" => interp.out = <<Str(input.a), Str(input.a)>>

\* the chain of an instance of the n-th class, its own class first, and the
\* first class of it that declares name
LookupChain(n) == [i \in 1..n |-> LookupClasses[n + 1 - i]]
LookupDeclares(class, name) ==
    \/ class = "A" /\ name \in {"m", "z"}
    \/ class = "B" /\ name = "m"
LookupOwners(n, name) ==
    { i \in 1..n : LookupDeclares(LookupChain(n)[i], name) }
LookupOwner(n, name) ==
    LookupChain(n)[CHOOSE i \in LookupOwners(n, name) :
                      \A j \in LookupOwners(n, name) : i <= j]

\* C3: property lookup order: a field wins over a method of the same name;
\* otherwise the first class of the chain (class, superclass, ...) that
\* declares the name gives the method, bound to the instance; otherwise
\* the lookup fails with Undefined property 'NAME'.
C3_LookupOrder ==
    (input.family = "lookup" /\ phase \in {"done", "error"}) =>
        LET name == LookupNames[input.m] IN
        IF input.variant = 1 /\ name = "m"
        THEN phase = "done" /\ Global("got") = String("field")
        ELSE IF LookupOwners(input.n, name) # {}
        THEN /\ phase = "done"
             /\ Global("got").t = "fun"
             /\ LET f == interp.funs[Global("got").n] IN
                 /\ f.declaration = LookupMethod(LookupOwner(input.n, name), name)
                 /\ interp.envs[f.closure].values["this"] = Global("o")
        ELSE phase = "error" /\ error = UndefinedProperty(name)

\* C4: super.m inside a method of class B (superclass A) looks m up from A
\* upward, whatever the class of this, and binds it to the current this:
\* B().test() and C().test() run A's method (Z's when A inherits it), and
\* a name no class from A upward has fails with Undefined property.
C4_SuperLookup ==
    input.family = "super" =>
        IF input.variant = 2
        THEN /\ phase # "done"
             /\ Failed => error = UndefinedProperty("nothing")
        ELSE /\ ~Failed
             /\ phase = "done" =>
                  interp.out = <<(IF input.variant = 3 THEN "Z" ELSE "A") \o " method",
                                 "T">>

\* v is an instance with field f = arg, and field g exactly when init ran on
InitFieldsOk(v, arg, late) ==
    /\ v.t = "inst"
    /\ Has(interp.insts[v.n].fields, "f")
    /\ interp.insts[v.n].fields["f"] = arg
    /\ Has(interp.insts[v.n].fields, "g") <=> late

\* C5: calling a class returns the freshly allocated instance and calling a
\* bound init returns the instance bound as this, whether init runs to its
\* end or returns early; the fields init assigned before are on it.
C5_InitializerReturnsThis ==
    input.family = "init" =>
        /\ ~Failed
        /\ phase = "done" =>
            LET x == InitArg(input, input.variant)
                y == InitArg(input, input.m)
            IN  /\ Global("e").t = "inst"
                /\ interp.insts[Global("e").n].fields = EmptyMap
                /\ InitFieldsOk(Global("o"), x, x # input.a)
                /\ InitFieldsOk(Global("o2"), x, x # input.a)
                /\ Cardinality({Global("e").n, Global("o").n, Global("o2").n}) = 3
                /\ InitFieldsOk(Global("r"), y, x # input.a \/ y # input.a)
                /\ \E k \in 1..Len(interp.funs) :
                    /\ interp.funs[k].is_initializer
                    /\ Has(interp.envs[interp.funs[k].closure].values, "this")
                    /\ interp.envs[interp.funs[k].closure].values["this"] = Global("r")

C5_Witness ==
    /\ input.family = "init" /\ phase = "done"
    /\ input.a # input.b /\ input.variant = 0 /\ input.m = 1
    /\ ~Has(interp.insts[Global("o").n].fields, "g")
    /\ Has(interp.insts[Global("r").n].fields, "g")

\* C6: a call of a user function of n parameters with m # n arguments
\* gives Expected n arguments but got m. and has no other effect: nothing
\* is printed, no frame and no instance that existed changes, the current
\* environment stays.
C6_ArityNoEffect ==
    [][ ( /\ input.family = "arity" /\ input.n # input.m
          /\ phase = "running" /\ pc = ArityCallIndex )
        => ( /\ phase' = "error"
             /\ error' = ArgumentCountError(input.n, input.m)
             /\ pc' = pc
             /\ interp'.out = interp.out
             /\ interp'.environment = interp.environment
             /\ \A e \in 1..Len(interp.envs) : interp'.envs[e] = interp.envs[e]
             /\ \A i \in 1..Len(interp.insts) : interp'.insts[i] = interp.insts[i] ) ]_vars

C6_Witness ==
    /\ input.family = "arity" /\ input.n # input.m /\ input.variant = 3
    /\ phase = "error" /\ pc = ArityCallIndex
    /\ error = ArgumentCountError(input.n, input.m)
    /\ Global("g") = String("untouched")
    /\ interp.out = <<>>

\* C8: two functions declared in one scope share the captured frame: what
\* one assigns the other reads, also after the declaring call returned;
\* two calls of the enclosing function give two independent frames.
C8_SharedClosureFrames ==
    input.family = "shared" =>
        /\ ~Failed
        /\ phase = "done" =>
            /\ interp.out = <<ToString(input.n), ToString(input.m), ToString(input.n),
                              ToString(input.n + 1), ToString(input.m)>>
            /\ interp.funs[Global("inc1").n].closure = interp.funs[Global("get1").n].closure
            /\ interp.funs[Global("inc").n].closure = interp.funs[Global("get").n].closure
            /\ interp.funs[Global("inc").n].closure # interp.funs[Global("inc1").n].closure

C8_Witness ==
    /\ input.family = "shared" /\ phase = "done"
    /\ input.n = MaxIter /\ input.m = 1
    /\ interp.envs[interp.funs[Global("get1").n].closure].values["c"] = Number(input.n + 1)
    /\ interp.envs[interp.funs[Global("get").n].closure].values["c"] = Number(input.m)

\* the value the return statement of the family carries
ReturnValue == IF input.variant = 0 THEN Nil ELSE input.a

\* C9: a return at any depth of blocks, if and while inside a function body
\* ends that call: no later statement and no further iteration runs, the
\* call yields the carried value (nil for a bare return, and for a body
\* that ends without return), nothing fails, and the caller goes on in its
\* own environment.
C9_ReturnPropagation ==
    input.family = "return" =>
        /\ ~Failed
        /\ phase = "done" =>
            /\ interp.environment = interp.globals
            /\ interp.out =
                 Numerals(input.n) \o
                 (IF input.n < MaxIter THEN <<Str(ReturnValue)>> ELSE <<"end", "nil">>) \o
                 <<"L">>

C9_Witness ==
    /\ input.family = "return" /\ phase = "done"
    /\ input.depth = MaxDepth /\ input.n = 1 /\ input.variant = 1
    /\ input.a = String("global")
    /\ interp.out = <<"0", "global", "L">>

\* 1 OP 1 printed, for each OP of Ops
OpResult == <<"2", "0", "1", "false", "true">>

\* C10: evaluation is left to right: in a Binary the effects of the left
\* operand come before those of the right; in a Call the callee comes
\* first, then the arguments in source order, then the body.
C10_LeftToRight ==
    input.family = "order" =>
        /\ ~Failed
        /\ phase = "done" =>
            interp.out =
                <<"l", "r", OpResult[input.m]>> \o
                <<"1", "2", "3", "0">> \o
                <<"c">> \o [i \in 1..input.n |-> ArgLabel(i)] \o
                <<"body", ToString(input.n)>>

C10_Witness ==
    /\ input.family = "order" /\ phase = "done" /\ input.n = MaxArgs
    /\ Len(interp.out) = 10 + MaxArgs
    /\ interp.out[9] = ArgLabel(1)

\* nil and false, the two values the language treats as false
Falsey(v) == v = Nil \/ v = Boolean(FALSE)

\* C11: l or r yields l's value without evaluating r when l is truthy, else
\* r's value; l and r yields l's value without evaluating r when l is
\* falsey, else r's value; the value is the operand's own, never coerced.
C11_LogicalShortCircuit ==
    input.family = "logical" =>
        /\ ~Failed
        /\ phase = "done" =>
            LET skip == IF input.variant = 0 THEN ~Falsey(input.a) ELSE Falsey(input.a) IN
            /\ Global("got") = (IF skip THEN input.a ELSE input.b)
            /\ interp.out = (IF skip THEN <<"l">> ELSE <<"l", "r">>)

C11_Witness ==
    /\ input.family = "logical" /\ phase = "done"
    /\ input.variant = 1 /\ input.a = Number(0) /\ input.b = Number(2)
    /\ Global("got") = Number(2)
    /\ interp.out = <<"l", "r">>

\* the operand numbers that denote nil and false
FalseyOperand(k) == k <= Len(OperandValues) /\ Falsey(OperandValues[k])

\* true or false as print writes it
BoolText(b) == IF b THEN "true" ELSE "false"

\* C12: nil and false are the only falsey values: !x is true exactly for
\* them and false for every other value, 0 and "" included, and the
\* conditions of if and while take the same branch.
C12_Truthiness ==
    input.family = "truthy" =>
        /\ ~Failed
        /\ phase = "done" =>
            IF input.variant = 0
            THEN /\ Global("got") = Boolean(FalseyOperand(input.n))
                 /\ interp.out = IF FalseyOperand(input.n)
                                  THEN <<"else", "skip">>
                                  ELSE <<"then", "loop">>
            ELSE interp.out = <<BoolText(FalseyOperand(input.n))>>

\* C13: == and != never fail and give a Boolean for operands of any
\* variants; a value equals itself, values of different variants (and
\* different values) are unequal, and != is the negation of ==.
C13_EqualityTotal ==
    input.family = "equality" =>
        /\ ~Failed
        /\ phase = "done" =>
            IF input.variant = 0
            THEN /\ Global("eq") = Boolean(input.n = input.m)
                 /\ Global("ne") = Boolean(input.n # input.m)
            ELSE interp.out =
                   <<BoolText(IF input.depth = 0 THEN input.n = input.m
                                                 ELSE input.n # input.m)>>

\* C14: + on operands that are neither two numbers nor two strings fails
\* with Operands must be two numbers or two strings., after both operands
\* were evaluated, and the print statement holding it writes nothing.
C14_PlusTypeError ==
    ( /\ input.family = "plus"
      /\ ~(IsNumber(input.a) /\ IsNumber(input.b))
      /\ ~(input.a.t = "str" /\ input.b.t = "str") ) =>
        /\ phase # "done"
        /\ Failed =>
            /\ error = "Operands must be two numbers or two strings."
            /\ Global("trace") = String("lr")
            /\ interp.out = <<>>

\* C15: on a value that is not an instance a property read fails with
\* Only instances have properties. and a property write fails with
\* Only instances have fields., the value expression not evaluated.
C15_NonInstanceAccess ==
    input.family = "access" =>
        /\ phase # "done"
        /\ Failed =>
            /\ error = (IF input.variant = 0
                        THEN "Only instances have properties."
                        ELSE "Only instances have fields.")
            /\ Global("trace") = String("")
            /\ interp.out = <<>>

\* C16: a return is rejected with Can't return from top-level code. exactly
\* when no function or method body encloses it, and a return with a value
\* with Can't return a value from an initializer. exactly when the
\* innermost enclosing function is a method named init; every other
\* return passes, and the kind in force before a function declaration is
\* in force again after it.
C16_ReturnChecks ==
    (input.family = "retcheck" /\ phase # "parsed") =>
        IF input.variant \in {0, 1}
        THEN phase = "rejected" /\ error = "Can't return from top-level code."
        ELSE IF input.variant \in {5, 7} /\ input.m = 1
        THEN phase = "rejected" /\ error = "Can't return a value from an initializer."
        ELSE ~Failed

C16_Witness ==
    /\ input.family = "retcheck" /\ input.variant = 7 /\ input.m = 1
    /\ input.depth = MaxDepth
    /\ phase = "rejected" /\ error = RETURN_FROM_INITIALIZER

\* C17: this is rejected with Can't use 'this' outside of a class. exactly
\* when no class body encloses it; super is rejected with Can't use
\* 'super' outside of a class. when no class body encloses it and with
\* Can't use 'super' in a class with no superclass. when the innermost
\* enclosing class has none; the class kind of the enclosing context is
\* in force again after a class declaration.
C17_ClassContextChecks ==
    (input.family = "classcheck" /\ phase # "parsed") =>
        CASE input.variant \in {0, 1, 4} ->
                phase = "rejected" /\ error = "Can't use 'this' outside of a class."
          [] input.variant \in {5, 9} ->
                phase = "rejected" /\ error = "Can't use 'super' outside of a class."
          [] input.variant \in {6, 8} ->
                /\ phase = "rejected"
                /\ error = "Can't use 'super' in a class with no superclass."
          [] OTHER -> ~Failed

C17_Witness ==
    /\ input.family = "classcheck" /\ input.variant = 8 /\ input.depth = MaxDepth
    /\ phase = "rejected" /\ error = SUPER_WITHOUT_SUPERCLASS

\* the innermost scope of a resolver that has one
InnermostScope(R) == R.scopes[Len(R.scopes)]

\* C18: in a non-global scope a name is absent, then declared (false), then
\* defined (true); declaring a name the same scope already has is rejected
\* with Already a variable with this name in this scope., reading a name
\* the innermost scope has declared and not defined with Can't read local
\* variable in its own initializer.; at global scope both pass the resolver.
C18_TwoPhaseDeclaration ==
    (input.family = "declare" /\ phase # "parsed") =>
        /\ LET R0 == begin_scope(Resolver_new(interp.locals))
               R1 == declare(R0, "a")
               R2 == define(R1, "a")
           IN  /\ ~Has(InnermostScope(R0), "a")
               /\ R1.ok /\ InnermostScope(R1)["a"] = FALSE
               /\ R2.ok /\ InnermostScope(R2)["a"] = TRUE
               /\ ~declare(R1, "a").ok /\ ~declare(R2, "a").ok
        /\ CASE (input.variant = 0 /\ input.depth > 0) \/ input.variant = 1 ->
                  /\ phase = "rejected"
                  /\ error = "Already a variable with this name in this scope."
             [] (input.variant = 2 /\ input.depth > 0) \/ input.variant = 3 ->
                  /\ phase = "rejected"
                  /\ error = "Can't read local variable in its own initializer."
             [] input.variant = 2 -> phase # "rejected"
             [] OTHER -> ~Failed

C18_Witness ==
    /\ input.family = "declare" /\ input.variant = 2 /\ input.depth = 1
    /\ phase = "rejected" /\ error = VARIABLE_IN_OWN_INITIALIZER


\* the line of the `=` tokens of the assignment of an assign program (the
\* first line holds the declarations)
EqualLine ==
    LET tokens == scan_tokens(Source(input)) IN
    CHOOSE line \in { tokens[i].line : i \in { j \in 1..Len(tokens) :
                          tokens[j].token_type = "EQUAL" /\ tokens[j].line > 1 } } : TRUE

\* the value of an assign program
AssignValue ==
    IF input.m = 0 THEN Literal(Number(1))
    ELSE Binary(Literal(Number(1)), "+", Literal(Number(2)))

\* the expression of the fifth statement of an assign program
AssignParsed == parsed.val[5].expr

\* C19: when `=` follows a logic_or expression the right-hand side is parsed
\* as an assignment, right-associative; a Variable left side becomes Assign
\* with its name, a Get left side becomes Set with its object and name;
\* every other left side fails with `Invalid assignment target.`, reported
\* at the line of the `=` token, also when the right-hand side ends on a
\* later line.
C19_AssignmentTarget ==
    (input.family = "assign" /\ phase # "source") =>
        CASE input.variant = 1 ->
                 /\ parsed.ok
                 /\ AssignParsed.k = "Assign" /\ AssignParsed.name = "b"
                 /\ AssignParsed.value = AssignValue
          [] input.variant = 2 ->
                 /\ parsed.ok
                 /\ AssignParsed.k = "Set" /\ AssignParsed.name = "x"
                 /\ AssignParsed.object.k = "Variable" /\ AssignParsed.object.name = "a"
                 /\ AssignParsed.value = AssignValue
          [] input.variant = 3 ->
                 /\ parsed.ok
                 /\ AssignParsed.k = "Assign" /\ AssignParsed.name = "b"
                 /\ AssignParsed.value.k = "Assign" /\ AssignParsed.value.name = "c"
                 /\ AssignParsed.value.value = AssignValue
          [] input.variant = 4 ->
                 /\ parsed.ok
                 /\ AssignParsed.k = "Set" /\ AssignParsed.name = "x"
                 /\ AssignParsed.object.k = "Variable" /\ AssignParsed.object.name = "a"
                 /\ AssignParsed.value.k = "Assign" /\ AssignParsed.value.name = "b"
                 /\ AssignParsed.value.value = AssignValue
          [] OTHER ->
                 /\ ~parsed.ok /\ phase = "error"
                 /\ parsed.err.message = "Invalid assignment target."
                 /\ error = "Invalid assignment target."
                 /\ parsed.err.line = EqualLine


\* the statement parsed from the `for` of a for program: the first of the
\* body of f, the second declaration
ForParsed == parsed.val[2].fun.body[1]

\* the While of the desugaring
ForWhile == IF input.variant = 0 THEN ForParsed ELSE ForParsed.statements[2]

\* the block written as the body of the loop
IsForBody(written) ==
    /\ written.k = "Block"
    /\ written.statements[1].k = (IF input.depth = 0 THEN "Print" ELSE "If")

\* what a for program prints: the iterations, then the value of i after the
\* loop in f (unless f returned from the loop) and at top level; the global
\* i is untouched when the loop declares its own
ForOutput ==
    LET after == IF input.variant = 1 THEN "0" ELSE ToString(input.n) IN
    [j \in 1..input.n |-> ToString(j - 1)]
        \o (IF input.depth = 0 THEN <<after>> ELSE <<>>) \o <<after>>

\* C20: `for (init; cond; incr) body` parses to
\* Block([init, While(cond, Block([body, Expression(incr)]))]); a missing
\* cond is Literal(Boolean(true)), a missing incr leaves the body
\* unwrapped, a missing init leaves the While without the outer Block; the
\* init clause accepts only a var declaration, an expression statement or
\* a lone `;`.  Executed, init runs once, then cond, body, incr repeat, and
\* a variable declared in init is not visible after the loop.
C20_ForDesugaring ==
    (input.family = "for" /\ phase # "source") =>
        IF input.variant = 3
        THEN ~parsed.ok /\ phase = "error"
        ELSE /\ parsed.ok
             /\ phase \notin {"error", "rejected"}
             /\ CASE input.variant = 0 -> TRUE
                  [] input.variant = 1 ->
                        /\ ForParsed.k = "Block" /\ Len(ForParsed.statements) = 2
                        /\ ForParsed.statements[1] = VariableS("i", Literal(Number(0)))
                  [] input.variant = 2 ->
                        /\ ForParsed.k = "Block" /\ Len(ForParsed.statements) = 2
                        /\ ForParsed.statements[1].k = "Expression"
                        /\ ForParsed.statements[1].expr.k = "Assign"
             /\ ForWhile.k = "While"
             /\ IF input.depth = 0
                THEN /\ ForWhile.condition.k = "Binary" /\ ForWhile.condition.op = "<"
                     /\ ForWhile.condition.right = Literal(Number(input.n))
                ELSE ForWhile.condition = Literal(Boolean(TRUE))
             /\ IF input.m = 0
                THEN /\ ForWhile.body.k = "Block" /\ Len(ForWhile.body.statements) = 2
                     /\ IsForBody(ForWhile.body.statements[1])
                     /\ ForWhile.body.statements[2].k = "Expression"
                     /\ ForWhile.body.statements[2].expr.k = "Assign"
                     /\ ForWhile.body.statements[2].expr.value.k = "Binary"
                ELSE IsForBody(ForWhile.body)
             /\ phase = "done" => interp.out = ForOutput


\* the arguments of the call, or the parameters of the function, that the
\* parser built from a cap program
CapParsed ==
    IF input.variant = 0
    THEN parsed.val[1].fun.body[1].expr.arguments
    ELSE parsed.val[1].fun.params

CapMessage ==
    IF input.variant = 0
    THEN "Cannot have more than 255 arguments."
    ELSE "Cannot have more than 255 parameters."

\* C21: a call with at most 255 arguments and a function with at most 255
\* parameters parse without error; the 256th argument or parameter is
\* reported as a parse error, and the parser goes on after it: the rest of
\* the call or declaration and the statements after it are parsed too, up
\* to the end of the tokens.
C21_ArgumentCaps ==
    (input.family = "cap" /\ phase # "source") =>
        IF input.n <= 255
        THEN /\ parsed.ok /\ Len(parsed.val) = 2
             /\ Len(CapParsed) = input.n
             /\ parsed.val[2] = PrintS(Literal(Number(2)))
        ELSE /\ error = CapMessage
             /\ is_at_end(parsed.P)


\* the level of a binary or logical operator: a higher level binds tighter
Level(op) ==
    CASE op = "or" -> 1
      [] op = "and" -> 2
      [] op \in {"==", "!="} -> 3
      [] op \in {"<", "<=", ">", ">="} -> 4
      [] op \in {"-", "+"} -> 5
      [] op \in {"/", "*"} -> 6

Node(left, op, right) ==
    IF op \in {"or", "and"} THEN Logical(left, op, right) ELSE Binary(left, op, right)

\* the tree the levels give to the expression of a prec program; the ids
\* number the names from the left, then the assignments from the inside
PrecTree ==
    LET op1 == PrecOps[input.n]
        op2 == PrecOps[input.m]
        a == Variable(0, "a")
        b == Variable(1, "b")
        c == Variable(2, "c")
    IN  CASE input.variant = 0 ->
                 IF Level(op1) >= Level(op2)
                 THEN Node(Node(a, op1, b), op2, c)
                 ELSE Node(a, op1, Node(b, op2, c))
          [] input.variant = 1 -> Node(Unary("!", Unary("-", a)), op1, b)
          [] input.variant = 2 ->
                 IF Level(op1) >= Level(op2)
                 THEN Node(Node(a, op1, Unary("-", b)), op2, c)
                 ELSE Node(a, op1, Node(Unary("-", b), op2, c))
          [] input.variant = 3 ->
                 Assign(5, "a", Assign(4, "b", Node(c, op1, Variable(3, "d"))))
          [] input.variant = 4 -> Node(Unary("-", Get(a, "x")), op1, Call(b, <<>>))
          [] input.variant = 5 -> Node(a, op1, Grouping(Node(b, op2, c)))

\* the expression the parser built from a prec program
PrecParsed == parsed.val[1].fun.body[1].expr

\* C22: the parser builds the tree given by the levels assignment < or <
\* and < equality < comparison < term < factor < unary < call; operators
\* of one level associate to the left, assignment to the right, and unary
\* operators nest to the right.
C22_Precedence ==
    (input.family = "prec" /\ phase # "source") =>
        parsed.ok /\ PrecParsed = PrecTree

\* parsed: two operators of one level, a tighter operator on the right,
\* and the chained assignment
C22_Witness ==
    /\ input.family = "prec" /\ phase = "done"
    /\ \/ input.variant = 0 /\ Level(PrecOps[input.n]) < Level(PrecOps[input.m])
       \/ input.variant = 3
    /\ PrecParsed = PrecTree


\* the printed text of the expression of a print program, parsed again
Reparsed == expression(Parser_new(scan_tokens(<<Expression_fmt(parsed.val).lexemes>>)))

RoundTrip == Reparsed.ok /\ Reparsed.val = parsed.val

\* C23 as claimed: printing the parsed expression in the parenthesised
\* prefix form and parsing the printed text again yields the same AST, for
\* every parseable expression.
C23_RoundTrip ==
    (input.family = "print" /\ phase = "done") => RoundTrip

\* C23, amended: the round trip yields the same AST exactly when the
\* expression is a number, boolean or nil literal; the printed text of a
\* string literal, grouping, unary, binary, logical, variable, assignment
\* or call does not parse back to it.
C23_RoundTripLiterals ==
    (input.family = "print" /\ phase = "done") =>
        (RoundTrip <=> (parsed.val.k = "Literal"
                          /\ parsed.val.value.t \in {"num", "bool", "nil"}))

\* a number literal printed as 1.0 and parsed back, and a grouping printed
\* and not parsed back
C23_Witness ==
    /\ input.family = "print" /\ phase = "done"
    /\ \/ parsed.val = Literal(Number(1)) /\ interp.out = <<"1.0">> /\ RoundTrip
       \/ parsed.val = Grouping(Literal(Number(1))) /\ interp.out = <<"(group 1.0)">>
            /\ ~RoundTrip

\* C24: execute_block leaves the evaluator's current environment identical
\* to the one in force before the block on every exit path: normal
\* completion, a propagated return, and a runtime error raised inside the
\* block. Every top-level statement starts in the global frame, so after
\* each of them, however it ends, the current environment is the global
\* frame again.
C24_EnvironmentRestored ==
    interp.environment = interp.globals

\* the frames from env up to the root, innermost first
RECURSIVE Chain(_, _)
Chain(envs, env) ==
    IF env = 0 THEN <<>> ELSE <<env>> \o Chain(envs, envs[env].parent)

\* the innermost frame of the chain of env whose own map contains name, or 0
Holder(envs, env, name) ==
    LET chain == Chain(envs, env)
        with == { i \in 1..Len(chain) : Has(envs[chain[i]].values, name) }
    IN  IF with = {} THEN 0
        ELSE chain[CHOOSE i \in with : \A j \in with : i <= j]

\* the names bound anywhere in the heap, and one bound nowhere
Unbound == "unbound"

BoundNames == UNION { DOMAIN interp.envs[e].values : e \in 1..Len(interp.envs) }

Assigned == String("assigned")

\* what assign(name, value) started at frame env did to the heap
AssignOutcome(envs, env, name, value, r) ==
    LET h == Holder(envs, env, name) IN
    IF h # 0
    THEN /\ r.ok
         /\ Len(r.envs) = Len(envs)
         /\ DOMAIN r.envs[h].values = DOMAIN envs[h].values
         /\ r.envs[h].values[name] = value
         /\ \A n \in DOMAIN envs[h].values \ {name} :
                r.envs[h].values[n] = envs[h].values[n]
         /\ r.envs[h].parent = envs[h].parent
         /\ \A e \in (1..Len(envs)) \ {h} : r.envs[e] = envs[e]
    ELSE /\ ~r.ok
         /\ r.err = UndefinedVariable(name)
         /\ r.envs = envs

\* the names of every frame of the heap are still there in the next state
NamesKept ==
    /\ Len(interp'.envs) >= Len(interp.envs)
    /\ \A e \in 1..Len(interp.envs) :
           DOMAIN interp.envs[e].values \subseteq DOMAIN interp'.envs[e].values

\* C25: assign(name, value) overwrites the binding in the innermost frame of
\* the chain that already contains name and changes no other frame; when no
\* frame up to the root contains name it fails with Undefined variable
\* 'NAME'., creates no binding and leaves every frame unchanged; and over
\* the defines and assigns of a statement the set of names of a frame only
\* grows.  The first part is stated for an assign started at every frame of
\* every heap a program builds, for every name bound in it and one that is
\* not.
C25_Assign ==
    /\ [](\A e \in 1..Len(interp.envs) : \A name \in BoundNames \cup {Unbound} :
             AssignOutcome(interp.envs, e, name, Assigned,
                           Environment_assign(interp.envs, e, name, Assigned)))
    /\ [][NamesKept]_vars

\* a program has assigned the global g from inside a function body, whose
\* frame reaches g only through its parent, and no frame binds the unbound
\* name
C25_Witness ==
    /\ phase = "done"
    /\ Has(interp.envs[interp.globals].values, "g")
    /\ interp.envs[interp.globals].values["g"] = String("touched")
    /\ \E e \in 1..Len(interp.envs) :
           e # interp.globals /\ Holder(interp.envs, e, "g") = interp.globals
    /\ Unbound \notin BoundNames

\* the ids of the Variable, Assign, This and Super nodes of an expression, a
\* statement, a function or a list of them (items lo..hi, the range halved),
\* one element for each node
RECURSIVE NodeIds(_)
RECURSIVE NodeIdsRange(_, _, _)
NodeIdsRange(items, lo, hi) ==
    IF lo > hi THEN <<>>
    ELSE IF lo = hi THEN NodeIds(items[lo])
    ELSE NodeIdsRange(items, lo, (lo + hi) \div 2)
            \o NodeIdsRange(items, (lo + hi) \div 2 + 1, hi)

NodeIdsAll(items) == NodeIdsRange(items, 1, Len(items))

NodeIds(x) ==
    IF "k" \notin DOMAIN x THEN NodeIdsAll(x.body)
    ELSE CASE x.k = "Variable" -> <<x.id>>
      [] x.k = "Assign" -> NodeIds(x.value) \o <<x.id>>
      [] x.k \in {"This", "Super"} -> <<x.id>>
      [] x.k \in {"Binary", "Logical"} -> NodeIds(x.left) \o NodeIds(x.right)
      [] x.k = "Call" -> NodeIds(x.callee) \o NodeIdsAll(x.arguments)
      [] x.k \in {"Grouping", "Expression", "Print"} -> NodeIds(x.expr)
      [] x.k = "Unary" -> NodeIds(x.right)
      [] x.k = "Get" -> NodeIds(x.object)
      [] x.k = "Set" -> NodeIds(x.value) \o NodeIds(x.object)
      [] x.k = "Block" -> NodeIdsAll(x.statements)
      [] x.k = "Class" -> NodeIds(x.superclass) \o NodeIdsAll(x.methods)
      [] x.k = "Var" -> NodeIds(x.init)
      [] x.k = "Function" -> NodeIds(x.fun)
      [] x.k = "If" -> NodeIds(x.condition) \o NodeIds(x.then_branch)
                          \o NodeIds(x.else_branch)
      [] x.k = "Return" -> NodeIds(x.value)
      [] x.k = "While" -> NodeIds(x.condition) \o NodeIds(x.body)
      [] OTHER -> <<>>

UniqueIds(ids) == \A i, j \in 1..Len(ids) : ids[i] = ids[j] => i = j

\* The table the claim describes.  W is the stack of the sets of names in
\* scope, innermost last, and the table so far.
Depths(W, name) == { d \in 0..(Len(W.scopes) - 1) : name \in W.scopes[Len(W.scopes) - d] }

Note(W, id, name) ==
    IF Depths(W, name) = {} THEN W
    ELSE [W EXCEPT !.table =
             Put(@, id, CHOOSE d \in Depths(W, name) : \A c \in Depths(W, name) : d <= c)]

Push(W, names) == [W EXCEPT !.scopes = Append(@, names)]

Pop(W) == [W EXCEPT !.scopes = SubSeq(@, 1, Len(@) - 1)]

Declared(W, name) ==
    IF W.scopes = <<>> THEN W ELSE [W EXCEPT !.scopes[Len(W.scopes)] = @ \cup {name}]

RECURSIVE Walk(_, _)
RECURSIVE WalkRange(_, _, _, _)
WalkRange(W, items, lo, hi) ==
    IF Len(W.scopes) < 0 \/ lo > hi THEN W
    ELSE IF lo = hi THEN Walk(W, items[lo])
    ELSE WalkRange(WalkRange(W, items, lo, (lo + hi) \div 2),
                   items, (lo + hi) \div 2 + 1, hi)

WalkAll(W, items) == WalkRange(W, items, 1, Len(items))

Walk(W, x) ==
    IF "k" \notin DOMAIN x
    THEN Pop(WalkAll(Push(W, { x.params[i] : i \in 1..Len(x.params) }), x.body))
    ELSE CASE x.k = "Variable" -> Note(W, x.id, x.name)
      [] x.k = "Assign" -> Note(Walk(W, x.value), x.id, x.name)
      [] x.k \in {"This", "Super"} -> Note(W, x.id, x.keyword)
      [] x.k \in {"Binary", "Logical"} -> Walk(Walk(W, x.left), x.right)
      [] x.k = "Call" -> WalkAll(Walk(W, x.callee), x.arguments)
      [] x.k \in {"Grouping", "Expression", "Print"} -> Walk(W, x.expr)
      [] x.k = "Unary" -> Walk(W, x.right)
      [] x.k = "Get" -> Walk(W, x.object)
      [] x.k = "Set" -> Walk(Walk(W, x.value), x.object)
      [] x.k = "Block" -> Pop(WalkAll(Push(W, {}), x.statements))
      [] x.k = "Class" ->
            IF IsNone(x.superclass)
            THEN Pop(WalkAll(Push(Declared(W, x.name), {"this"}), x.methods))
            ELSE Pop(Pop(WalkAll(
                     Push(Push(Walk(Declared(W, x.name), x.superclass), {"super"}),
                          {"this"}),
                     x.methods)))
      [] x.k = "Var" -> Walk(Declared(W, x.name), x.init)
      [] x.k = "Function" -> Walk(Declared(W, x.fun.name), x.fun)
      [] x.k = "If" -> Walk(Walk(Walk(W, x.condition), x.then_branch), x.else_branch)
      [] x.k = "Return" -> Walk(W, x.value)
      [] x.k = "While" -> Walk(Walk(W, x.condition), x.body)
      [] OTHER -> W

ResolutionTable(program) ==
    WalkAll([scopes |-> <<>>, table |-> [x \in {} |-> 0]], program).table

\* the resolver has accepted the program of this run
Accepted ==
    /\ phase \in {"running", "done", "error"}
    /\ ~IsCommand(input) /\ input.family # "print"
    /\ IsSource(input) => parsed.ok

\* C26: every Variable, Assign, This and Super node the parser builds
\* carries an id no other node of the program carries, and for a program
\* the resolver accepts, its nodes so numbered, the table holds for each
\* such node whose name is in a scope on the stack the one entry
\* id -> number of scopes between the innermost and the nearest one that
\* contains the name, and no entry for a node whose name is in no scope.
C26_ResolutionTable ==
    /\ (IsSource(input) /\ parsed.ok) => UniqueIds(NodeIdsAll(parsed.val))
    /\ (Accepted /\ UniqueIds(NodeIdsAll(statements)))
           => interp.locals = ResolutionTable(statements)

\* a parsed for loop in a function body: the condition reads the loop
\* variable in the innermost scope, the body reads it two scopes out, and
\* the statement after the call reads the global, which gets no entry
C26_Witness ==
    /\ input.family = "for" /\ phase = "done"
    /\ UniqueIds(NodeIdsAll(parsed.val))
    /\ \E i, j, g \in { NodeIdsAll(parsed.val)[n] : n \in 1..Len(NodeIdsAll(parsed.val)) } :
           /\ i \in DOMAIN interp.locals /\ interp.locals[i] = 0
           /\ j \in DOMAIN interp.locals /\ interp.locals[j] = 2
           /\ g \notin DOMAIN interp.locals

\* the frame class B of an inherit program is declared in: the innermost of
\* the depth blocks, each of which pushed one frame on the global one
DeclarationFrame == interp.globals + input.depth

\* the frames that bind writes as they are after class B and var after
ClassDeclared(has_super) ==
    LET D == DeclarationFrame
        B == interp.envs[D].values["B"]
        methods == interp.classes[B.n].methods
    IN  /\ Len(Chain(interp.envs, D)) = input.depth + 1
        /\ Has(interp.envs[D].values, "B")
        /\ B.t = "class" /\ B.n = Len(interp.classes)
        /\ interp.classes[B.n].name = "B"
        /\ FramesWith("B") = {D}
        /\ FramesWith("after") = {D}
        /\ DOMAIN methods = {"m", "init"}
        /\ \A name \in DOMAIN methods :
             LET closure == interp.funs[methods[name]].closure IN
             IF has_super
             THEN /\ closure # D
                  /\ interp.envs[closure].parent = D
                  /\ interp.envs[closure].values = Put(EmptyMap, "super", ClassV(1))
             ELSE closure = D

\* C27: after a Class statement completes the current environment is the
\* frame it was before the statement (the statement after it defines its
\* name in that frame, a frame pushed for super being popped again) and the
\* class name is bound there to the new class; with a superclass the
\* closure of every method is the pushed frame that defines super as the
\* superclass, without one it is the declaration frame; and when the
\* superclass expression is not a class the statement fails with
\* Superclass must be a class. and the class name is bound nowhere.
C27_ClassDeclaration ==
    input.family = "inherit" =>
        IF input.variant \in {0, 1}
        THEN /\ ~Failed
             /\ phase = "done" => ClassDeclared(input.variant = 1)
             /\ (phase = "running" /\ input.depth = 0 /\ pc = 4) =>
                    interp.environment = interp.globals /\ FramesWith("B") = {1}
        ELSE /\ FramesWith("B") = {}
             /\ phase \notin {"done", "rejected"}
             /\ phase = "error" => error = "Superclass must be a class."

C27_Witness ==
    /\ input.family = "inherit" /\ input.depth = 1
    /\ \/ /\ phase = "done" /\ input.variant = 1
          /\ FramesWith("super") = {3} /\ FramesWith("after") = {2}
       \/ /\ phase = "error" /\ input.variant = 4
          /\ interp.envs[1].values["S"].t = "inst"

\* every node of an expression, a statement, a function or a list of them
\* (items lo..hi, the range halved), the node itself first
RECURSIVE Parts(_)
RECURSIVE PartsRange(_, _, _)
PartsRange(items, lo, hi) ==
    IF lo > hi THEN <<>>
    ELSE IF lo = hi THEN Parts(items[lo])
    ELSE PartsRange(items, lo, (lo + hi) \div 2)
            \o PartsRange(items, (lo + hi) \div 2 + 1, hi)

PartsAll(items) == PartsRange(items, 1, Len(items))

Parts(x) ==
    IF "k" \notin DOMAIN x THEN PartsAll(x.body)
    ELSE <<x>> \o
         CASE x.k = "Assign" -> Parts(x.value)
           [] x.k \in {"Binary", "Logical"} -> Parts(x.left) \o Parts(x.right)
           [] x.k = "Call" -> Parts(x.callee) \o PartsAll(x.arguments)
           [] x.k \in {"Grouping", "Expression", "Print"} -> Parts(x.expr)
           [] x.k = "Unary" -> Parts(x.right)
           [] x.k = "Get" -> Parts(x.object)
           [] x.k = "Set" -> Parts(x.value) \o Parts(x.object)
           [] x.k = "Block" -> PartsAll(x.statements)
           [] x.k = "Class" -> Parts(x.superclass) \o PartsAll(x.methods)
           [] x.k = "Var" -> Parts(x.init)
           [] x.k = "Function" -> Parts(x.fun)
           [] x.k = "If" -> Parts(x.condition) \o Parts(x.then_branch)
                               \o Parts(x.else_branch)
           [] x.k = "Return" -> Parts(x.value)
           [] x.k = "While" -> Parts(x.condition) \o Parts(x.body)
           [] OTHER -> <<>>

\* the ids of the Assign nodes of expr that assign name
AssignsTo(expr, name) ==
    LET parts == Parts(expr) IN
    { parts[i].id : i \in { j \in 1..Len(parts) :
                              parts[j].k = "Assign" /\ parts[j].name = name } }

\* the ids of the assignments to a variable inside its own initializer
OwnInitializerAssigns(program) ==
    LET parts == PartsAll(program) IN
    UNION { AssignsTo(parts[i].init, parts[i].name) :
              i \in { j \in 1..Len(parts) : parts[j].k = "Var" } }

\* the ways a run shows a get_at that ran off the root or found no super
\* or this at the recorded depth
DepthErrors ==
    {NoParent, "Super reference must be a class.",
     "'this' reference must be an instance."}

\* C28 as claimed: in every program the resolver accepts, whenever the
\* evaluator reads or assigns a resolved Variable, Assign, This or Super at
\* its recorded depth, the chain has that many links and the frame that
\* far out already contains the name: ancestor never runs off the root,
\* get_at never falls back to nil and assign_at never creates a binding.
C28_DepthAgreement ==
    Accepted => interp.absent = {} /\ error \notin DepthErrors

\* C28, amended: the same, except for an assignment to a local variable
\* inside that variable's own initializer, which is resolved at depth 0 and
\* runs before the var statement has defined the name, so that assign_at
\* creates the binding.
C28_DepthAgreementDefined ==
    Accepted =>
        /\ interp.absent \subseteq OwnInitializerAssigns(statements)
        /\ error \notin DepthErrors

\* var a = 1; { var a = a = 2; print a; } print a; in a block: the inner
\* assignment found no a in the inner frame and created it there, and the
\* reads found theirs at their depths
C28_Witness ==
    /\ input.family = "own" /\ input.variant = 1 /\ input.depth = 1
    /\ phase = "done"
    /\ interp.absent = {1}
    /\ interp.out = <<"2", "1">>

\* the resolver as it returns from resolve for the program of this run
Resolved == resolve(Resolver_new(Interpreter_new.locals), statements, 1)

\* the table of a method program: from the body of m the parameter and the
\* local are in the innermost scope, this one scope out, super (with a
\* superclass) two out, and x, declared in the block around the classes,
\* in the scope after those; at depth 0 x and A are globals
MethodTable ==
    LET own == (1 :> 0) @@ (2 :> 0) @@ (3 :> 1)
        sup == IF input.variant = 1 THEN (4 :> 2) ELSE [i \in {} |-> 0]
        x == IF input.depth = 0 THEN [i \in {} |-> 0]
             ELSE (5 :> (2 + input.variant)) @@
                  (IF input.variant = 1 THEN (6 :> 0) ELSE [i \in {} |-> 0])
    IN  own @@ sup @@ x

\* C29: every begin_scope is matched by one end_scope, so after resolve
\* returns successfully the scope stack is empty and current_function and
\* current_class are None again; and inside a method body the stack holds,
\* innermost first, the function scope with the parameters and the locals
\* of the body, the this scope and, only with a superclass, the super
\* scope, as the depths recorded from the body of a method show.
C29_ScopeDiscipline ==
    (input.family # "print" /\ ~IsCommand(input) /\ (IsSource(input) => parsed.ok)) =>
        /\ \A R \in {Resolved} :
              R.ok => /\ R.scopes = <<>>
                      /\ R.current_function = "None"
                      /\ R.current_class = "None"
        /\ (input.family = "method" /\ Accepted) => interp.locals = MethodTable

C29_Witness ==
    /\ input.family = "method" /\ input.variant = 1 /\ input.depth = 2
    /\ phase = "done"
    /\ Resolved.ok /\ Resolved.scopes = <<>>
    /\ interp.locals[3] = 1 /\ interp.locals[4] = 2 /\ interp.locals[5] = 3

\* the parser of this run with its cursor at token c
ParserAt(c) == [Parser_new(scan_tokens(Source(input))) EXCEPT !.current = c]

\* the cursor of a result is on a token, and after a call that returned Ok
\* from cursor c it is beyond c
OnToken(r) == r.P.current \in 1..Len(r.P.tokens)

Consumed(c, r) == OnToken(r) /\ (r.ok => r.P.current > c)

\* the operator and separator tokens the loops of the expression levels,
\* of call, of finish_call and of the parameter list go round on
LoopTokens ==
    {"OR", "AND", "BANG_EQUAL", "EQUAL_EQUAL", "GREATER", "GREATER_EQUAL", "LESS",
     "LESS_EQUAL", "MINUS", "PLUS", "SLASH", "STAR", "LEFT_PAREN", "DOT", "COMMA"}

\* C30: on every token sequence that ends with one EOF token parse
\* terminates with a statement list, the cursor on the EOF token, or with
\* an error; from every cursor position an iteration of the declaration
\* loops of parse and block (one declaration) and of class_declaration (one
\* method) and an iteration of an operator loop (the operator or separator
\* matched, then an operand) consumes at least one token or returns an
\* error; and the cursor never advances past the EOF token.
C30_ParserProgress ==
    (input.family = "tokens" /\ phase # "source") =>
        /\ OnToken(parsed)
        /\ IF parsed.ok
           THEN is_at_end(parsed.P)
           ELSE parsed.err.message # ""
        /\ \A c \in 1..Len(parsed.P.tokens) :
              /\ Consumed(c, declaration(ParserAt(c)))
              /\ Consumed(c, function(ParserAt(c), "method"))
              /\ match_(ParserAt(c), LoopTokens) =>
                    /\ advance(ParserAt(c)).current = c + 1
                    /\ Consumed(c, expression(advance(ParserAt(c))))
              /\ advance(ParserAt(c)).current <= Len(parsed.P.tokens)

\* class a { a ( ) parsed to the error after the parameter list, and a
\* sequence of two statements parsed to the end
C30_Witness ==
    /\ input.family = "tokens" /\ phase # "source"
    /\ \/ /\ parsed.ok /\ Len(parsed.val) = 2 /\ is_at_end(parsed.P)
       \/ /\ ~parsed.ok /\ input.variant = 1 /\ parsed.P.current = Len(parsed.P.tokens)
          /\ parsed.err.message = "Expect '{' before method body."

====
